---- MODULE Spec2Model ----
(***************************************************************************)
(* FinSight ML pipeline: the rule-based SMS labeler (pipeline/labeler.py), *)
(* the hybrid classifier (pipeline/classifier.py), the field extractor     *)
(* (pipeline/extractor.py), the fraud detector                             *)
(* (pipeline/fraud_detector.py) and the ingestion handlers with their      *)
(* dedup key (main.py).                                                    *)
(*                                                                         *)
(* Text.  An SMS body is a sequence of phrases of a fixed vocabulary; the  *)
(* text of the body is its phrases joined by ". ".  A compiled pattern of  *)
(* the source is the set of vocabulary phrases it matches, and             *)
(* pattern.search(body) is "some phrase of the body is in the set": for    *)
(* this vocabulary no pattern of the source matches across the ". " joint. *)
(*                                                                         *)
(* Numbers.  A score or confidence is an integer in units of 1e-4.  The    *)
(* source adds IEEE-754 doubles; a sum that the double addition rounds     *)
(* just below (above) the decimal value is one unit below (above) it, so   *)
(* that comparisons and round(x, 3) come out as they do in the source.     *)
(***************************************************************************)
EXTENDS Integers, Sequences, FiniteSets, TLC

VARIABLES
    body,        \* the phrases of the SMS body being processed
    sender,      \* its sender address
    pc,          \* position of the operation in progress
    rule,        \* what label_sms returned, NoResult before it ran
    is_trained,  \* SmsClassifier.is_trained
    model,       \* SmsClassifier.model: the classes it was fitted on, what predict returns
    ml,          \* outcome of the _ml_predict call of the classify in progress
    result,      \* the dict classify builds and returns
    sms_raw,       \* SMS_RAW_FILE: the raw SMS received
    processed_sms, \* PROCESSED_FILE: the labelled SMS
    transactions,  \* TRANSACTIONS_FILE: the transactions store
    current_txn,      \* detect_anomaly: its argument transaction
    history_snapshot, \* detect_anomaly: its argument user_history
    anomaly_result,   \* detect_anomaly: the dict it returns
    returned,            \* the value a function of the pipeline returned for body and sender
    is_training,         \* AutoTrainer.is_training
    last_trained_count,  \* AutoTrainer.last_trained_count
    sms_count,           \* the number of SMS in SMS_RAW_FILE, as _get_current_sms_count reads it
    thread_pc            \* where each thread is in AutoTrainer.retrain

vars == <<body, sender, pc, rule, is_trained, model, ml, result,
          sms_raw, processed_sms, transactions,
          current_txn, history_snapshot, anomaly_result,
          returned, is_training, last_trained_count, sms_count, thread_pc>>

classifierVars == <<is_trained, model, ml, result>>

storeVars == <<sms_raw, processed_sms, transactions>>

messageVars == <<body, sender, pc, rule>>

anomalyVars == <<current_txn, history_snapshot, anomaly_result>>

callVars == <<returned>>

trainerVars == <<is_training, last_trained_count, sms_count, thread_pc>>

\* _load_json of a file that does not exist yet
StoresEmpty ==
    /\ sms_raw = <<>>
    /\ processed_sms = <<>>
    /\ transactions = <<>>

\* no call of detect_anomaly is in progress
AnomalyIdle ==
    /\ current_txn = [t |-> "None"]
    /\ history_snapshot = <<>>
    /\ anomaly_result = [t |-> "None"]

\* no function was called on the message
CallIdle == returned = [t |-> "None"]

\* the AutoTrainer as constructed, no thread in retrain
TrainerIdle ==
    /\ is_training = FALSE
    /\ last_trained_count = 0
    /\ sms_count = 0
    /\ thread_pc = << >>

(***************************************************************************)
(* Bounds of the model.                                                    *)
(***************************************************************************)
MaxLen == 3
MaxClassifyLen == 2
MaxBatch == 2
MaxRaw == 2
MaxTxns == 2
MaxTxnId == 2
MaxHistory == 6
MaxSpamLen == 3
MaxExtractLen == 3
MaxSmsCount == 400

(***************************************************************************)
(* The vocabulary.                                                         *)
(***************************************************************************)
TxnPhrase == "Rs.500 debited from A/c XX1234 via UPI"
TxnFullPhrase == "Rs.500 debited from A/c XX1234 to AMAZON on 05-02-24"
TxnBarePhrase == "Rs.500 debited from A/c XX1234"
NoDirectionPhrase == "Rs.500 A/c XX1234"
KycPhrase == "KYC update"
BlockPhrase == "account will be blocked"
PrizePhrase == "Congratulations you won a prize"
DrawPhrase == "lucky draw"
ShortUrlPhrase == "bit.ly/abc"
ClickUrlPhrase == "click http://evil.example/x"
DuePhrase == "bill is due on 05-03-24"
DeclinedPhrase == "transaction declined, amount reversed"
CardDebitPhrase == "Credit Card XX1234 debited Rs.500"
SbiPhrase == "SBI"
HsbcPhrase == "HSBC card"
SuffixPhrase == "- Cosmos Bank"
ShortSuffixPhrase == "- AB"
LongSuffixPhrase == "- Cooperative Bank of the Northern Province Limited"

Phrases ==
    { "lottery", "OTP", "Rs.500", "A/c XX1234", "credited", "debited", "UPI",
      "Bal", "overdue", "offer", "hello", TxnPhrase }

Senders == { "AD-HDFCBK", "+919876543210", "VM-INFOSM", "" }

RECURSIVE SeqsUpTo(_, _)
SeqsUpTo(S, n) ==
    IF n = 0 THEN { <<>> }
    ELSE LET shorter == SeqsUpTo(S, n - 1)
         IN  shorter \cup { Append(s, x) : s \in { t \in shorter : Len(t) = n - 1 }, x \in S }

Bodies == SeqsUpTo(Phrases, MaxLen)

(***************************************************************************)
(* The compiled patterns of labeler.py, each as the phrases it matches.    *)
(***************************************************************************)
BANK_SENDER_PATTERNS      == { "AD-HDFCBK", "HSBC" }
AMOUNT_PATTERN            ==
    { "Rs.500", TxnPhrase, TxnFullPhrase, TxnBarePhrase, NoDirectionPhrase,
      CardDebitPhrase }
\* in CardDebitPhrase the credit word ("Credit") starts before the debit word
CREDIT_INDICATORS         == { "credited", "refund", DeclinedPhrase, CardDebitPhrase }
DEBIT_INDICATORS          ==
    { "debited", TxnPhrase, TxnFullPhrase, TxnBarePhrase, CardDebitPhrase }
ACCOUNT_PATTERN           ==
    { "A/c XX1234", TxnPhrase, TxnFullPhrase, TxnBarePhrase, NoDirectionPhrase,
      CardDebitPhrase }
UPI_PATTERN               == { "UPI", TxnPhrase }
NEFT_PATTERN              == { }
IMPS_PATTERN              == { }
OTP_PATTERN               == { "OTP" }
BALANCE_PATTERN           == { "Bal" }
SPAM_INDICATORS           == { "lottery", PrizePhrase, DrawPhrase }
PROMO_INDICATORS          == { "offer" }
NON_TRANSACTION_FINANCIAL == { "overdue", DuePhrase, DeclinedPhrase }

\* re.match(r'^\+?\d{10,}$', sender)
PhoneNumberSenders == { "+919876543210" }

\* pattern.search(text): some phrase of the text matches
Search(pattern, text) == \E i \in DOMAIN text : text[i] \in pattern

\* pattern.search(text).start(): where the first match begins
MatchStart(pattern, text) ==
    CHOOSE i \in DOMAIN text :
        /\ text[i] \in pattern
        /\ \A j \in 1..(i - 1) : text[j] \notin pattern

\* 'word' in body_lower: the phrases that contain the word, case folded
Containing(word) ==
    CASE word = "statement"   -> { }
      [] word = "emi"         -> { }
      [] word = "payment due" -> { }
      [] word = "overdue"     -> { "overdue" }
      [] word = "balance"     -> { }
      [] word = "bal"         -> { "Bal" }
      [] word = "block"       -> { BlockPhrase }
      [] word = "suspend"     -> { }

InBody(word, text) == Search(Containing(word), text)

(***************************************************************************)
(* Double addition.  InexactSums lists <<x, w, x + w>> for the additions   *)
(* of the scoring code whose double result is not the decimal sum.         *)
(***************************************************************************)
InexactSums ==
    { <<2000, 1000, 3001>>, <<3000, 1500, 4499>>, <<3001, 1000, 4000>>,
      <<6000, 3000, 8999>>,
      <<3500, 1000, 4499>>, <<4499, 1000, 5499>>, <<4499, 2000, 6499>>,
      <<4499, 2500, 7000>>, <<5499, 1000, 6499>>, <<5500, 1500, 7001>>,
      <<6499, 1000, 7499>>, <<6499, 2500, 8999>>, <<7000, 1000, 7999>>,
      <<7001, 1000, 8000>>, <<7499, 1000, 8499>>, <<7999, 1000, 8999>>,
      <<8999, 1000, 9999>>, <<9999, 1000, 10999>> }

FloatAdd(x, w) ==
    IF \E t \in InexactSums : t[1] = x /\ t[2] = w
    THEN (CHOOSE t \in InexactSums : t[1] = x /\ t[2] = w)[3]
    ELSE x + w

\* score += w when the signal is present
AddIf(signal, score, w) == IF signal THEN FloatAdd(score, w) ELSE score

Min(a, b) == IF a <= b THEN a ELSE b

(***************************************************************************)
(* label_sms                                                               *)
(***************************************************************************)
Labels ==
    { "financial_transaction", "financial_alert", "otp", "promotional",
      "personal", "spam" }

NoResult == [label |-> "", sub_label |-> "", confidence |-> 0]

Triple(l, s, c) == [label |-> l, sub_label |-> s, confidence |-> c]

\* the boolean signals label_sms computes from the body and the sender
Signals(b, s) ==
    [ is_spam            |-> Search(SPAM_INDICATORS, b),
      has_otp            |-> Search(OTP_PATTERN, b),
      is_non_transaction |-> Search(NON_TRANSACTION_FINANCIAL, b),
      has_amount         |-> Search(AMOUNT_PATTERN, b),
      has_account        |-> Search(ACCOUNT_PATTERN, b),
      has_credit         |-> Search(CREDIT_INDICATORS, b),
      has_debit          |-> Search(DEBIT_INDICATORS, b),
      is_bank_sender     |-> s \in BANK_SENDER_PATTERNS,
      has_upi            |-> Search(UPI_PATTERN, b),
      has_neft           |-> Search(NEFT_PATTERN, b),
      has_imps           |-> Search(IMPS_PATTERN, b),
      has_balance        |-> Search(BALANCE_PATTERN, b),
      has_promo          |-> Search(PROMO_INDICATORS, b),
      is_phone_sender    |-> s \in PhoneNumberSenders,
      debit_first        |-> /\ Search(CREDIT_INDICATORS, b)
                             /\ Search(DEBIT_INDICATORS, b)
                             /\ MatchStart(DEBIT_INDICATORS, b) < MatchStart(CREDIT_INDICATORS, b),
      has_statement      |-> InBody("statement", b),
      has_reminder       |-> InBody("emi", b) \/ InBody("payment due", b) \/ InBody("overdue", b),
      has_bal_word       |-> InBody("balance", b) \/ InBody("bal", b),
      has_block          |-> InBody("block", b) \/ InBody("suspend", b) ]

\* as TransactionScore, with the account weight subtracted
TransactionScoreAccountSubtracted(g) ==
    LET s1 == AddIf(g.has_amount, 0, 2500)
        s2 == IF g.has_account THEN s1 - 2000 ELSE s1
        s3 == AddIf(g.has_credit \/ g.has_debit, s2, 3000)
        s4 == AddIf(g.is_bank_sender, s3, 1500)
    IN  AddIf(g.has_upi \/ g.has_neft \/ g.has_imps, s4, 1000)

TransactionScore(g) ==
    LET s1 == AddIf(g.has_amount, 0, 2500)
        s2 == AddIf(g.has_account, s1, 2000)
        s3 == AddIf(g.has_credit \/ g.has_debit, s2, 3000)
        s4 == AddIf(g.is_bank_sender, s3, 1500)
    IN  AddIf(g.has_upi \/ g.has_neft \/ g.has_imps, s4, 1000)

\* as TransactionSubLabel, with credit taken whenever both kinds occur
TransactionSubLabelCreditPreferred(g) ==
    IF g.has_credit /\ ~g.has_debit THEN "credit"
    ELSE IF g.has_debit /\ ~g.has_credit THEN "debit"
    ELSE IF g.has_credit /\ g.has_debit THEN "credit"
    ELSE "unknown_direction"

TransactionSubLabel(g) ==
    IF g.has_credit /\ ~g.has_debit THEN "credit"
    ELSE IF g.has_debit /\ ~g.has_credit THEN "debit"
    ELSE IF g.has_credit /\ g.has_debit
         THEN (IF g.debit_first THEN "debit" ELSE "credit")
    ELSE "unknown_direction"

\* as FinancialAlertScore, with the balance weight left out
FinancialAlertScoreWithoutBalance(g) ==
    LET s1 == AddIf(g.is_bank_sender, 0, 3000)
        s2 == AddIf(g.has_amount, s1, 1500)
        s4 == AddIf(g.is_non_transaction, s2, 2500)
    IN  AddIf(g.has_account, s4, 1000)

FinancialAlertScore(g) ==
    LET s1 == AddIf(g.is_bank_sender, 0, 3000)
        s2 == AddIf(g.has_amount, s1, 1500)
        s3 == AddIf(g.has_balance, s2, 2000)
        s4 == AddIf(g.is_non_transaction, s3, 2500)
    IN  AddIf(g.has_account, s4, 1000)

AlertSubLabel(g) ==
    IF g.has_statement THEN "statement"
    ELSE IF g.has_reminder THEN "payment_reminder"
    ELSE IF g.has_bal_word THEN "balance_info"
    ELSE IF g.has_block THEN "security_alert"
    ELSE "general_alert"

\* as AlertAndAfter, without the default of step 8
AlertAndAfterNoDefault(g) ==
    IF FinancialAlertScore(g) >= 4000
    THEN Triple("financial_alert", AlertSubLabel(g),
                Min(FloatAdd(FinancialAlertScore(g), 1000), 10000))
    ELSE IF g.has_promo THEN Triple("promotional", "marketing", 8000)
    ELSE IF g.is_phone_sender THEN Triple("personal", "p2p_message", 7000)
    ELSE Triple("unclassified", "", 0)

\* steps 5 to 8 of the cascade: financial alert, promotional, personal, default
AlertAndAfter(g) ==
    IF FinancialAlertScore(g) >= 4000
    THEN Triple("financial_alert", AlertSubLabel(g),
                Min(FloatAdd(FinancialAlertScore(g), 1000), 10000))
    ELSE IF g.has_promo THEN Triple("promotional", "marketing", 8000)
    ELSE IF g.is_phone_sender THEN Triple("personal", "p2p_message", 7000)
    ELSE Triple("promotional", "informational", 6000)

\* as Cascade, with the OTP gate tried before the spam gate
CascadeOtpFirst(g) ==
    IF g.has_otp /\ ~(g.has_amount /\ (g.has_credit \/ g.has_debit))
    THEN Triple("otp", "verification", 9500)
    ELSE IF g.is_spam THEN Triple("spam", "phishing", 9000)
    ELSE IF ~g.is_non_transaction /\ TransactionScore(g) >= 5000
    THEN Triple("financial_transaction", TransactionSubLabel(g),
                Min(FloatAdd(TransactionScore(g), 1000), 10000))
    ELSE AlertAndAfter(g)

\* as Cascade, with transaction scoring not suppressed by the non-transaction gate
CascadeGateIgnored(g) ==
    IF g.is_spam THEN Triple("spam", "phishing", 9000)
    ELSE IF g.has_otp /\ ~(g.has_amount /\ (g.has_credit \/ g.has_debit))
    THEN Triple("otp", "verification", 9500)
    ELSE IF TransactionScore(g) >= 5000
    THEN Triple("financial_transaction", TransactionSubLabel(g),
                Min(FloatAdd(TransactionScore(g), 1000), 10000))
    ELSE AlertAndAfter(g)

\* as Cascade, with every OTP message returned by the OTP gate
CascadeOtpAlways(g) ==
    IF g.is_spam THEN Triple("spam", "phishing", 9000)
    ELSE IF g.has_otp
    THEN Triple("otp", "verification", 9500)
    ELSE IF ~g.is_non_transaction /\ TransactionScore(g) >= 5000
    THEN Triple("financial_transaction", TransactionSubLabel(g),
                Min(FloatAdd(TransactionScore(g), 1000), 10000))
    ELSE AlertAndAfter(g)

\* as Cascade, with the transaction threshold strict
CascadeStrictThreshold(g) ==
    IF g.is_spam THEN Triple("spam", "phishing", 9000)
    ELSE IF g.has_otp /\ ~(g.has_amount /\ (g.has_credit \/ g.has_debit))
    THEN Triple("otp", "verification", 9500)
    ELSE IF ~g.is_non_transaction /\ TransactionScore(g) > 5000
    THEN Triple("financial_transaction", TransactionSubLabel(g),
                Min(FloatAdd(TransactionScore(g), 1000), 10000))
    ELSE AlertAndAfter(g)

\* the cascade of label_sms over the signals
Cascade(g) ==
    IF g.is_spam THEN Triple("spam", "phishing", 9000)
    ELSE IF g.has_otp /\ ~(g.has_amount /\ (g.has_credit \/ g.has_debit))
    THEN Triple("otp", "verification", 9500)
    ELSE IF ~g.is_non_transaction /\ TransactionScore(g) >= 5000
    THEN Triple("financial_transaction", TransactionSubLabel(g),
                Min(FloatAdd(TransactionScore(g), 1000), 10000))
    ELSE AlertAndAfter(g)

label_sms(b, s) == Cascade(Signals(b, s))

(***************************************************************************)
(* The labeler applied to one message.                                     *)
(***************************************************************************)
InitLabel ==
    /\ body \in Bodies
    /\ sender \in Senders
    /\ pc = "start"
    /\ rule = NoResult
    /\ is_trained = FALSE
    /\ model = {}
    /\ ml = [status |-> "not_called"]
    /\ result = [method |-> "none"]
    /\ StoresEmpty
    /\ AnomalyIdle
    /\ CallIdle
    /\ TrainerIdle

LabelSms ==
    /\ pc = "start"
    /\ rule' = label_sms(body, sender)
    /\ pc' = "labelled"
    /\ UNCHANGED <<body, sender, classifierVars, storeVars, anomalyVars, callVars, trainerVars>>

NextLabel == LabelSms

SpecLabel == InitLabel /\ [][NextLabel]_vars
(***************************************************************************)
(* SmsClassifier (classifier.py)                                           *)
(***************************************************************************)
CONFIDENCE_THRESHOLD == 6500

\* round(x, 3); no value of the model lies half way between two thousandths
Round3(x) == ((x + 5) \div 10) * 10

\* the label sets of the training data the model is fitted on
TrainingLabelSets == { Labels, { "financial_transaction", "otp", "promotional" } }

\* the confidences _ml_predict is made to return: max(predict_proba)
MLConfidences == { 2000, 6000, 6004, 6500, 8000 }

\* sklearn's LabelEncoder: the classes sorted, each label encoded as its index.
\* A class code is an integer; it is written as its decimal numeral so that
\* it can stand where a label name stands.
SortedLabels ==
    << "financial_alert", "financial_transaction", "otp", "personal",
       "promotional", "spam" >>

Position(l) == CHOOSE i \in DOMAIN SortedLabels : SortedLabels[i] = l

LabelEncode(ls, l) ==
    ToString(Cardinality({ m \in ls : Position(m) < Position(l) }))

\* y_encoded = le.fit_transform(y); self.model.fit(X, y_encoded):
\* the classes of the fitted model are the codes
FittedClasses(ls) == { LabelEncode(ls, l) : l \in ls }

\* the result dict of stage 1
RuleResult(r) ==
    [ label |-> r.label, sub_label |-> r.sub_label,
      confidence |-> Round3(r.confidence), method |-> "rule_based" ]

\* as NeedsModel, with the threshold itself sent to the model
NeedsModelAtThreshold(confidence, trained) ==
    confidence <= CONFIDENCE_THRESHOLD /\ trained

\* stage 2 is entered
NeedsModel(confidence, trained) ==
    confidence < CONFIDENCE_THRESHOLD /\ trained

\* as Merge, accepting a model confidence equal to the rule confidence
MergeOnTie(res, confidence, ml_label, ml_confidence) ==
    IF ml_confidence >= confidence
    THEN [res EXCEPT !.label = ml_label,
                     !.confidence = Round3(ml_confidence),
                     !.method = "ml_ensemble"]
    ELSE res

\* the model's prediction merged into the result
Merge(res, confidence, ml_label, ml_confidence) ==
    IF ml_confidence > confidence
    THEN [res EXCEPT !.label = ml_label,
                     !.confidence = Round3(ml_confidence),
                     !.method = "ml_ensemble"]
    ELSE res

\* as OnPredictionError, with the exception left to the caller
OnPredictionErrorPropagated(res) == [pc |-> "raised", result |-> [method |-> "none"]]

\* except Exception as e: print(...) -- classify goes on to return result
OnPredictionError(res) == [pc |-> "returned", result |-> res]

\* SmsClassifier(): _load_model finds no usable model files, or loads a
\* model that an earlier train(save=True) left on disk
InitClassify ==
    /\ body \in SeqsUpTo(Phrases, MaxClassifyLen)
    /\ sender \in Senders
    /\ pc = "start"
    /\ rule = NoResult
    /\ \/ is_trained = FALSE /\ model = {}
       \/ is_trained = TRUE /\ model = FittedClasses(Labels)
    /\ ml = [status |-> "not_called"]
    /\ result = [method |-> "none"]
    /\ StoresEmpty
    /\ AnomalyIdle
    /\ CallIdle
    /\ TrainerIdle

\* train(df): the ensemble is fitted on the encoded labels of df
Train ==
    /\ pc = "start"
    /\ \E ls \in TrainingLabelSets : model' = FittedClasses(ls)
    /\ is_trained' = TRUE
    /\ UNCHANGED <<body, sender, pc, rule, ml, result, storeVars, anomalyVars, callVars, trainerVars>>

\* classify, stage 1: the rule-based result; stage 2 follows only for a
\* low confidence and a trained model
ClassifyRuleStage ==
    /\ pc = "start"
    /\ rule' = label_sms(body, sender)
    /\ result' = RuleResult(rule')
    /\ pc' = IF NeedsModel(rule'.confidence, is_trained) THEN "model" ELSE "returned"
    /\ UNCHANGED <<body, sender, is_trained, model, ml, storeVars, anomalyVars, callVars, trainerVars>>

\* classify, stage 2: _ml_predict returns a class of the model and a confidence
ClassifyModelPredicts ==
    /\ pc = "model"
    /\ \E p \in model, c \in MLConfidences :
          /\ c * Cardinality(model) >= 10000   \* max of probabilities that sum to 1
          /\ ml' = [status |-> "returned", label |-> p, confidence |-> c]
          /\ result' = Merge(result, rule.confidence, p, c)
    /\ pc' = "returned"
    /\ UNCHANGED <<body, sender, rule, is_trained, model, storeVars, anomalyVars, callVars, trainerVars>>

\* classify, stage 2: _ml_predict raises
ClassifyModelRaises ==
    /\ pc = "model"
    /\ ml' = [status |-> "raised"]
    /\ pc' = OnPredictionError(result).pc
    /\ result' = OnPredictionError(result).result
    /\ UNCHANGED <<body, sender, rule, is_trained, model, storeVars, anomalyVars, callVars, trainerVars>>

NextClassify ==
    \/ Train
    \/ ClassifyRuleStage
    \/ ClassifyModelPredicts
    \/ ClassifyModelRaises

SpecClassify == InitClassify /\ [][NextClassify]_vars

(***************************************************************************)
(* Python values.  A value of a dict that may be None, a str or a number   *)
(* carries its type; a float is held in hundredths.  A dict is a record,   *)
(* its keys the fields that are present.                                   *)
(***************************************************************************)
None == [t |-> "None"]
Str(s) == [t |-> "str", v |-> s]
PyInt(n) == [t |-> "int", v |-> n]
PyFloat(n) == [t |-> "float", v |-> n]

\* d.get(k, default)
Get(d, k, default) == IF k \in DOMAIN d THEN d[k] ELSE default

\* bool(x)
Truthy(x) ==
    CASE x.t = "None" -> FALSE
      [] x.t = "str" -> x.v # ""
      [] x.t \in { "int", "float" } -> x.v # 0

\* repr of a non-negative double with at most two decimals: 500.0, 500.5, 500.05
FloatRepr(n) ==
    ToString(n \div 100) \o "." \o
        (IF n % 100 = 0 THEN "0"
         ELSE IF n % 10 = 0 THEN ToString((n % 100) \div 10)
         ELSE IF n % 100 < 10 THEN "0" \o ToString(n % 100)
         ELSE ToString(n % 100))

\* str(x)
PyStr(x) ==
    CASE x.t = "None" -> "None"
      [] x.t = "str" -> x.v
      [] x.t = "int" -> ToString(x.v)
      [] x.t = "float" -> FloatRepr(x.v)

\* float(s) of the strings that are numerals; every other string raises ValueError
NumeralStrings == [ s \in { "500", "500.00" } |-> 50000 ]

\* _safe_float(val)
_safe_float(val) ==
    CASE val.t = "None" -> PyFloat(0)
      [] val.t = "float" -> val
      [] val.t = "int" -> PyFloat(100 * val.v)
      [] val.t = "str" ->
            IF val.v \in DOMAIN NumeralStrings
            THEN PyFloat(NumeralStrings[val.v]) ELSE PyFloat(0)

\* _transaction_hash(txn): the key that is digested; SHA-256 is taken to be
\* injective, so the key stands for its digest
_transaction_hash(txn) ==
    PyStr(_safe_float(Get(txn, "amount", PyInt(0))))
        \o "|" \o PyStr(Get(txn, "transaction_date", Str("")))
        \o "|" \o PyStr(Get(txn, "transaction_type", Str("")))
        \o "|" \o PyStr(Get(txn, "sender", Str("")))
        \o "|" \o PyStr(Get(txn, "bank_name", Str("")))
        \o "|" \o PyStr(Get(txn, "counterparty", Str("")))

(***************************************************************************)
(* The field extractor (pipeline/extractor.py).  A regex with a capture    *)
(* group is the function from the phrases it matches to what it captures.  *)
(***************************************************************************)
\* the first match of a capturing regex in the text
FirstMatch(regex, text) == regex[text[MatchStart(DOMAIN regex, text)]]

AMOUNT_REGEX ==
    [ p \in { "Rs.500", TxnPhrase, TxnFullPhrase, TxnBarePhrase, NoDirectionPhrase,
              CardDebitPhrase }
        |-> 50000 ]

parse_amount(text) ==
    IF Search(DOMAIN AMOUNT_REGEX, text)
    THEN PyFloat(FirstMatch(AMOUNT_REGEX, text))
    ELSE None

BANK_MAP ==
    << <<"SBI", "State Bank of India">>, <<"HDFC", "HDFC Bank">>,
       <<"ICICI", "ICICI Bank">>, <<"AXIS", "Axis Bank">>,
       <<"KOTAK", "Kotak Mahindra Bank">>, <<"BOB", "Bank of Baroda">>,
       <<"PNB", "Punjab National Bank">>, <<"UNION", "Union Bank of India">>,
       <<"CANARA", "Canara Bank">>, <<"CENTBK", "Central Bank of India">>,
       <<"IPPB", "India Post Payments Bank">>, <<"IDBI", "IDBI Bank">>,
       <<"INDBNK", "Indian Bank">>, <<"FEDERAL", "Federal Bank">>,
       <<"BARODA", "Bank of Baroda">>, <<"UCO", "UCO Bank">>,
       <<"IOB", "Indian Overseas Bank">>, <<"INDUSIND", "IndusInd Bank">>,
       <<"YESBNK", "Yes Bank">>, <<"BANDHAN", "Bandhan Bank">>,
       <<"RBL", "RBL Bank">>, <<"CITI", "Citibank">>, <<"HSBC", "HSBC">>,
       <<"STANCHART", "Standard Chartered">>, <<"AMEX", "American Express">>,
       <<"PAYTM", "Paytm Payments Bank">>, <<"BAJFIN", "Bajaj Finance">>,
       <<"TATACAP", "Tata Capital">>, <<"MUTHOOT", "Muthoot Finance">>,
       <<"LICHFL", "LIC Housing Finance">>, <<"CBOI", "Central Bank of India">> >>

\* code in sender_upper: the BANK_MAP codes that occur in a sender address
CodesInSender(s) ==
    CASE s = "AD-HDFCBK" -> { "HDFC" }
      [] s = "HSBC" -> { "HSBC" }
      [] OTHER -> { }

\* code in body_upper: the BANK_MAP codes that occur in a phrase
CodesInPhrase(p) ==
    CASE p = SbiPhrase -> { "SBI" }
      [] p = HsbcPhrase -> { "HSBC" }
      [] OTHER -> { }

CodesInBody(text) == UNION { CodesInPhrase(text[i]) : i \in DOMAIN text }

\* re.search(r'\b(SBI|HDFC|...)\b', body_upper), and the "- BANK_NAME" at the
\* end of the body: what they capture, for the phrases they match
BankWordRegex == [ p \in { } |-> "" ]
BankAtEndRegex ==
    [ p \in { SuffixPhrase, ShortSuffixPhrase, LongSuffixPhrase } |->
        CASE p = SuffixPhrase -> "Cosmos Bank"
          [] p = ShortSuffixPhrase -> "AB"
          [] p = LongSuffixPhrase -> "Cooperative Bank of the Northern Province Limited" ]

\* len(bank_name) of the names the end pattern captures
NameLength ==
    [ p \in DOMAIN BankAtEndRegex |->
        CASE p = SuffixPhrase -> 11
          [] p = ShortSuffixPhrase -> 2
          [] p = LongSuffixPhrase -> 49 ]

parse_bank(s, text) ==
    LET hits == { i \in DOMAIN BANK_MAP :
                    BANK_MAP[i][1] \in CodesInSender(s) \cup CodesInBody(text) }
        first == CHOOSE i \in hits : \A j \in hits : i <= j
    IN  IF hits # { } THEN Str(BANK_MAP[first][2])
        ELSE IF Search(DOMAIN BankWordRegex, text)
        THEN Str(FirstMatch(BankWordRegex, text))
        ELSE IF /\ text # << >>
                /\ text[Len(text)] \in DOMAIN BankAtEndRegex
                /\ NameLength[text[Len(text)]] > 2
                /\ NameLength[text[Len(text)]] < 40
        THEN Str(BankAtEndRegex[text[Len(text)]])
        ELSE None

COUNTERPARTY_REGEX == [ p \in { TxnFullPhrase } |-> "AMAZON" ]
MERCHANT_REGEX_2 == [ p \in { } |-> "" ]

\* name.lower() in ['your', 'the', 'a', 'an', 'rs', 'inr']: the captured
\* names that are one of these words
CounterpartyStopNames == { }
MerchantStopNames == { }

parse_counterparty(text) ==
    IF /\ Search(DOMAIN COUNTERPARTY_REGEX, text)
       /\ FirstMatch(COUNTERPARTY_REGEX, text) \notin CounterpartyStopNames
    THEN Str(FirstMatch(COUNTERPARTY_REGEX, text))
    ELSE IF /\ Search(DOMAIN MERCHANT_REGEX_2, text)
            /\ FirstMatch(MERCHANT_REGEX_2, text) \notin MerchantStopNames
    THEN Str(FirstMatch(MERCHANT_REGEX_2, text))
    ELSE None

DATE_REGEX_PATTERNS ==
    << [ p \in { TxnFullPhrase, DuePhrase } |->
             IF p = DuePhrase THEN "05-03-24" ELSE "05-02-24" ],
       [ p \in { } |-> "" ], [ p \in { } |-> "" ], [ p \in { } |-> "" ] >>

\* datetime.fromtimestamp(int(timestamp) / 1000).strftime('%d-%m-%Y') of the
\* timestamps that are integers; int() of any other string raises ValueError
TimestampDates == [ ts \in { "1707111000000", "1707114600000" } |-> "05-02-2024" ]

parse_transaction_date(text, timestamp) ==
    LET matching == { i \in DOMAIN DATE_REGEX_PATTERNS :
                        Search(DOMAIN DATE_REGEX_PATTERNS[i], text) }
        first == CHOOSE i \in matching : \A j \in matching : i <= j
    IN  IF matching # { } THEN Str(FirstMatch(DATE_REGEX_PATTERNS[first], text))
        ELSE IF timestamp # "" /\ timestamp \in DOMAIN TimestampDates
        THEN Str(TimestampDates[timestamp])
        ELSE None

\* the phrases that contain one of the keywords of detect_transaction_type,
\* and those one of its exclusion patterns matches
credit_kws == { "credited", "refund", DeclinedPhrase }
debit_kws == { "debited", TxnPhrase, TxnFullPhrase, TxnBarePhrase, CardDebitPhrase }
non_txn_patterns == { DuePhrase, DeclinedPhrase }

\* detect_transaction_type that reads the exclusion patterns only when no
\* keyword is in the body
detect_transaction_typeKeywordsFirst(text) ==
    LET has_credit == Search(credit_kws, text)
        has_debit == Search(debit_kws, text)
    IN  IF has_credit /\ ~has_debit THEN Str("credit")
        ELSE IF has_debit /\ ~has_credit THEN Str("debit")
        ELSE IF has_credit /\ has_debit
        THEN IF text[MatchStart(credit_kws \cup debit_kws, text)] \in credit_kws
             THEN Str("credit") ELSE Str("debit")
        ELSE None

detect_transaction_type(text) ==
    LET has_credit == Search(credit_kws, text)
        has_debit == Search(debit_kws, text)
    IN  IF Search(non_txn_patterns, text) THEN None
        ELSE IF has_credit /\ ~has_debit THEN Str("credit")
        ELSE IF has_debit /\ ~has_credit THEN Str("debit")
        ELSE IF has_credit /\ has_debit
        THEN IF text[MatchStart(credit_kws \cup debit_kws, text)] \in credit_kws
             THEN Str("credit") ELSE Str("debit")
        ELSE None

\* extract_transaction(sms), the fields the handlers and the dedup key read
extract_transaction(sms) ==
    [ sms_id |-> sms._id,
      sender |-> Str(sms.address),
      amount |-> parse_amount(sms.body),
      transaction_type |-> detect_transaction_type(sms.body),
      bank_name |-> parse_bank(sms.address, sms.body),
      counterparty |-> parse_counterparty(sms.body),
      transaction_date |-> parse_transaction_date(sms.body, sms.date),
      timestamp |-> Str(sms.date) ]

(***************************************************************************)
(* The fraud detector (pipeline/fraud_detector.py).                        *)
(***************************************************************************)
\* the eleven compiled patterns, in the order detect_spam tries them
SPAM_PATTERNS ==
    << { PrizePhrase }, { DrawPhrase }, { }, { KycPhrase }, { BlockPhrase }, { },
       { }, { }, { ShortUrlPhrase }, { }, { } >>

LEGITIMATE_BANK_PREFIXES == { "AD-HDFCBK", "VM-INFOSM" }

\* any(kw in body.lower() for kw in ['bank', 'account', 'card', 'upi'])
FinancialWords ==
    { "UPI", TxnPhrase, BlockPhrase, CardDebitPhrase, HsbcPhrase, SuffixPhrase,
      LongSuffixPhrase }

\* any(kw in body.lower() for kw in ['click', 'verify', 'update', 'kyc'])
UrgencyWords == { KycPhrase, ClickUrlPhrase }

\* the phrases with a URL whose host is not one of KNOWN_BANK_DOMAINS
UnknownUrls == { ClickUrlPhrase }

\* spam_type set by the pattern of index i - 1
SpamTypeOf(i) ==
    IF i <= 3 THEN "lottery_scam"
    ELSE IF i <= 6 THEN "fake_bank_alert"
    ELSE IF i <= 8 THEN "loan_scam"
    ELSE IF i <= 9 THEN "phishing_url"
    ELSE "otp_theft"

RECURSIVE SpamPatternScore(_, _)
\* confidence once the first i patterns were tried
SpamPatternScore(text, i) ==
    IF i = 0 THEN 0
    ELSE AddIf(Search(SPAM_PATTERNS[i], text), SpamPatternScore(text, i - 1), 3000)

RECURSIVE AddTimes(_, _, _)
\* score += w, n times
AddTimes(score, w, n) ==
    IF n = 0 THEN score ELSE FloatAdd(AddTimes(score, w, n - 1), w)

detect_spam(sms) ==
    LET hits == { i \in DOMAIN SPAM_PATTERNS : Search(SPAM_PATTERNS[i], sms.body) }
        last == CHOOSE i \in hits : \A j \in hits : j <= i
        by_patterns == SpamPatternScore(sms.body, Len(SPAM_PATTERNS))
        by_sender ==
            AddIf(/\ sms.address \notin LEGITIMATE_BANK_PREFIXES
                  /\ sms.address \notin PhoneNumberSenders
                  /\ Search(FinancialWords, sms.body),
                  by_patterns, 1500)
        urls == { i \in DOMAIN sms.body : sms.body[i] \in UnknownUrls }
        confidence ==
            IF Search(UrgencyWords, sms.body)
            THEN AddTimes(by_sender, 2000, Cardinality(urls))
            ELSE by_sender
        is_spam == confidence >= 3000
    IN  [ is_spam |-> is_spam,
          spam_type |-> IF is_spam /\ hits # { } THEN Str(SpamTypeOf(last)) ELSE None,
          spam_confidence |-> Round3(Min(confidence, 10000)) ]

\* int(t.get('timestamp', 0)) in minutes, for the timestamps that are integers
TimestampMinutes ==
    [ ts \in { "1707111000000", "1707114600000" } |->
        IF ts = "1707111000000" THEN 28451850 ELSE 28451910 ]

\* the amount in whole rupees
Rupees(x) == x.v \div 100

RECURSIVE SeqSum(_)
SeqSum(s) == IF s = << >> THEN 0 ELSE Head(s) + SeqSum(Tail(s))

Abs(x) == IF x < 0 THEN -x ELSE x

\* abs((amount - mean) / std) > k, for the population mean and standard
\* deviation of the amounts, std replaced by 1.0 when it is 0
ZScoreAbove(k, amount, amounts) ==
    LET n == Len(amounts)
        S == SeqSum(amounts)
        Q == SeqSum([ i \in DOMAIN amounts |-> amounts[i] * amounts[i] ])
        dev == Abs(n * amount - S)
        spread == n * Q - S * S
    IN  IF spread = 0 THEN dev > k * n
        ELSE dev # 0 /\ spread <= (dev * dev - 1) \div (k * k)

detect_anomaly(transaction, user_history) ==
    LET amount == Get(transaction, "amount", None)
        history == user_history
        with_amount == SelectSeq(history, LAMBDA t : Truthy(Get(t, "amount", None)))
        historical_amounts == [ i \in DOMAIN with_amount |-> Rupees(with_amount[i].amount) ]
        by_amount ==
            IF Len(historical_amounts) >= 5
            THEN IF ZScoreAbove(3, Rupees(amount), historical_amounts) THEN 4000
                 ELSE IF ZScoreAbove(2, Rupees(amount), historical_amounts) THEN 2000
                 ELSE 0
            ELSE 0
        ts(t) == Get(t, "timestamp", PyInt(0))
        is_int(x) == x.t = "int" \/ (x.t = "str" /\ x.v \in DOMAIN TimestampMinutes)
        minutes(x) == IF x.t = "int" THEN x.v ELSE TimestampMinutes[x.v]
        debits == { i \in DOMAIN history :
                      Get(history[i], "transaction_type", None) = Str("debit") }
        recent_debits ==
            Cardinality({ i \in debits :
                Abs(minutes(ts(history[i])) - minutes(ts(transaction))) < 1440 })
        by_frequency ==
            AddIf(/\ Get(transaction, "transaction_type", None) = Str("debit")
                  /\ Len(history) >= 3
                  /\ is_int(ts(transaction))
                  /\ \A i \in debits : is_int(ts(history[i]))
                  /\ recent_debits > 5,
                  by_amount, 3000)
        counterparty == Get(transaction, "counterparty", Str(""))
        known_counterparties ==
            { Get(history[i], "counterparty", Str("")) :
                i \in { j \in DOMAIN history :
                          Truthy(Get(history[j], "counterparty", Str(""))) } }
        score ==
            AddIf(/\ Truthy(counterparty)
                  /\ counterparty \notin known_counterparties
                  /\ Cardinality(known_counterparties) > 3,
                  by_frequency, 1000)
    IN  IF ~Truthy(amount) \/ Len(history) = 0
        THEN [ is_anomaly |-> FALSE, anomaly_score |-> 0 ]
        ELSE [ is_anomaly |-> score >= 3000,
               anomaly_score |-> Round3(Min(score, 10000)) ]

\* analyze_sms that leaves a spam message genuine
analyze_smsSpamGenuine(sms) ==
    LET spam_result == detect_spam(sms)
    IN  IF spam_result.is_spam
        THEN [ is_genuine |-> TRUE, is_spam |-> TRUE, is_anomaly |-> FALSE,
               fraud_type |-> spam_result.spam_type ]
        ELSE [ is_genuine |-> TRUE, is_spam |-> FALSE, is_anomaly |-> FALSE,
               fraud_type |-> None ]

\* analyze_sms(sms): the anomaly part is a constant
analyze_sms(sms) ==
    LET spam_result == detect_spam(sms)
    IN  IF spam_result.is_spam
        THEN [ is_genuine |-> FALSE, is_spam |-> TRUE, is_anomaly |-> FALSE,
               fraud_type |-> spam_result.spam_type ]
        ELSE [ is_genuine |-> TRUE, is_spam |-> FALSE, is_anomaly |-> FALSE,
               fraud_type |-> None ]

\* preprocess_single_sms(sms): the SMS with its label (the feature columns
\* it also adds are read by no handler)
preprocess_single_sms(sms) ==
    LET l == label_sms(sms.body, sms.address)
    IN  [ label |-> l.label, sub_label |-> l.sub_label,
          label_confidence |-> Round3(l.confidence) ] @@ sms

(***************************************************************************)
(* detect_spam as a function of the message.                               *)
(***************************************************************************)
\* wording of each kind detect_spam reads, and wording it does not read
SpamPhrases ==
    { PrizePhrase, DrawPhrase, KycPhrase, BlockPhrase, ShortUrlPhrase,
      ClickUrlPhrase, "UPI", "hello" }

SpamBodies == SeqsUpTo(SpamPhrases, MaxSpamLen)

InitSpam ==
    /\ body \in SpamBodies
    /\ sender \in Senders
    /\ pc = "start"
    /\ rule = NoResult
    /\ is_trained = FALSE
    /\ model = {}
    /\ ml = [status |-> "not_called"]
    /\ result = [method |-> "none"]
    /\ StoresEmpty
    /\ AnomalyIdle
    /\ CallIdle
    /\ TrainerIdle

\* detect_spam({'body': body, 'address': sender})
DetectSpam ==
    /\ pc = "start"
    /\ pc' = "spam_checked"
    /\ returned' = detect_spam([ body |-> body, address |-> sender ])
    /\ UNCHANGED <<body, sender, rule, classifierVars, storeVars, anomalyVars,
                   trainerVars>>

NextSpam == DetectSpam

SpecSpam == InitSpam /\ [][NextSpam]_vars

(***************************************************************************)
(* detect_transaction_type and parse_bank as functions of the message.     *)
(***************************************************************************)
\* wording with a credit keyword, a debit keyword, an exclusion pattern, a
\* bank code, a "- NAME" suffix, and wording with none of them
ExtractPhrases ==
    { "credited", "debited", "refund", "hello", DuePhrase, DeclinedPhrase,
      SbiPhrase, HsbcPhrase, SuffixPhrase, ShortSuffixPhrase, LongSuffixPhrase }

ExtractBodies == SeqsUpTo(ExtractPhrases, MaxExtractLen)

ExtractSenders == { "AD-HDFCBK", "HSBC", "" }

InitExtract ==
    /\ body \in ExtractBodies
    /\ sender \in ExtractSenders
    /\ pc = "start"
    /\ rule = NoResult
    /\ is_trained = FALSE
    /\ model = {}
    /\ ml = [status |-> "not_called"]
    /\ result = [method |-> "none"]
    /\ StoresEmpty
    /\ AnomalyIdle
    /\ CallIdle
    /\ TrainerIdle

\* detect_transaction_type(body)
DetectTransactionType ==
    /\ pc = "start"
    /\ pc' = "type_detected"
    /\ returned' = detect_transaction_type(body)
    /\ UNCHANGED <<body, sender, rule, classifierVars, storeVars, anomalyVars,
                   trainerVars>>

\* parse_bank(sender, body)
ParseBank ==
    /\ pc = "start"
    /\ pc' = "bank_parsed"
    /\ returned' = parse_bank(sender, body)
    /\ UNCHANGED <<body, sender, rule, classifierVars, storeVars, anomalyVars,
                   trainerVars>>

NextExtract == DetectTransactionType \/ ParseBank

SpecExtract == InitExtract /\ [][NextExtract]_vars

(***************************************************************************)
(* detect_anomaly as a function of its two arguments.                      *)
(***************************************************************************)
\* the stored transactions a history is made of: a debit of Rs.100, a debit
\* whose amount was not found, a credit of Rs.100, a debit of Rs.500 that
\* carries no timestamp, and a debit of Rs.101 made an hour after the others
HistoryPool ==
    << [ amount |-> PyFloat(10000), transaction_type |-> Str("debit"),
         counterparty |-> Str("AMAZON"), timestamp |-> Str("1707111000000") ],
       [ amount |-> None, transaction_type |-> Str("debit"),
         counterparty |-> Str("FLIPKART"), timestamp |-> Str("1707111000000") ],
       [ amount |-> PyFloat(10000), transaction_type |-> Str("credit"),
         counterparty |-> Str("SALARY"), timestamp |-> Str("1707111000000") ],
       [ amount |-> PyFloat(50000), transaction_type |-> Str("debit"),
         counterparty |-> Str("ZOMATO") ],
       [ amount |-> PyFloat(10100), transaction_type |-> Str("debit"),
         counterparty |-> Str("AMAZON"), timestamp |-> Str("1707114600000") ] >>

\* n times the element x
Repeat(x, n) == [ i \in 1 .. n |-> x ]

\* the histories of at most MaxHistory transactions of the pool; detect_anomaly
\* reads no order from user_history, so each is listed in the order of the pool
Histories ==
    { Repeat(HistoryPool[1], q[1]) \o Repeat(HistoryPool[2], q[2])
        \o Repeat(HistoryPool[3], q[3]) \o Repeat(HistoryPool[4], q[4])
        \o Repeat(HistoryPool[5], q[5]) :
      q \in { c \in (0 .. MaxHistory) \X (0 .. MaxHistory) \X (0 .. MaxHistory)
                      \X (0 .. MaxHistory) \X (0 .. MaxHistory) :
                 c[1] + c[2] + c[3] + c[4] + c[5] <= MaxHistory } }

\* the amounts of the current transaction: none, Rs.0, Rs.100, Rs.103, Rs.104
CurrentAmounts == { None, PyFloat(0), PyFloat(10000), PyFloat(10300), PyFloat(10400) }

\* the transactions detect_anomaly is called on
CurrentTransactions ==
    { [ amount |-> a, transaction_type |-> d, counterparty |-> c, timestamp |-> ts ] :
        a \in CurrentAmounts,
        d \in { Str("debit"), Str("credit") },
        c \in { Str("AMAZON"), Str("SWIGGY"), None },
        ts \in { Str("1707111000000"), Str("05-02-24") } }

InitAnomaly ==
    /\ body = << >>
    /\ sender = ""
    /\ pc = "start"
    /\ rule = NoResult
    /\ is_trained = FALSE
    /\ model = {}
    /\ ml = [status |-> "not_called"]
    /\ result = [method |-> "none"]
    /\ StoresEmpty
    /\ current_txn \in CurrentTransactions
    /\ history_snapshot \in Histories
    /\ anomaly_result = None
    /\ CallIdle
    /\ TrainerIdle

\* anomaly = detect_anomaly(txn, existing_transactions)
DetectAnomaly ==
    /\ pc = "start"
    /\ pc' = "scored"
    /\ anomaly_result' = detect_anomaly(current_txn, history_snapshot)
    /\ UNCHANGED <<body, sender, rule, classifierVars, storeVars,
                   current_txn, history_snapshot, callVars, trainerVars>>

NextAnomaly == DetectAnomaly

SpecAnomaly == InitAnomaly /\ [][NextAnomaly]_vars

(***************************************************************************)
(* The ingestion handlers of main.py.                                      *)
(***************************************************************************)
\* the SMS the app sends: _id, address, body and date are present in each;
\* body_null marks the SMS whose body is null in the JSON of the request
SmsPool ==
    { [ _id |-> "1", address |-> "HSBC", body |-> << TxnFullPhrase >>,
        date |-> "1707111000000" ],
      [ _id |-> "2", address |-> "AD-HDFCBK", body |-> << TxnFullPhrase >>,
        date |-> "1707111000000" ],
      [ _id |-> "3", address |-> "HSBC", body |-> << TxnBarePhrase >>,
        date |-> "1707111000000" ],
      [ _id |-> "4", address |-> "AD-HDFCBK", body |-> << NoDirectionPhrase >>,
        date |-> "1707111000000" ],
      [ _id |-> "5", address |-> "AD-HDFCBK", body |-> << TxnBarePhrase, KycPhrase >>,
        date |-> "1707111000000" ],
      [ _id |-> "1", address |-> "AD-HDFCBK", body |-> << TxnBarePhrase >>,
        date |-> "1707111000000" ],
      [ _id |-> "6", address |-> "HSBC", body |-> << CardDebitPhrase >>,
        date |-> "1707111000000" ],
      [ _id |-> "7", address |-> "HSBC", body |-> << >>, body_null |-> TRUE,
        date |-> "1707111000000" ] }

\* the notifications the app sends; a key that is left out is absent
NotificationPool ==
    { [ app_name |-> Str("HSBC"), package |-> Str("com.hsbc"), amount |-> PyInt(500),
        transaction_type |-> Str("debit"), counterparty |-> Str("AMAZON"),
        timestamp |-> Str("05-02-24") ],
      [ app_name |-> Str("GPay"), package |-> Str("com.gpay"), amount |-> Str("500"),
        counterparty |-> Str("AMAZON"), timestamp |-> Str("05-02-24") ],
      [ app_name |-> Str("HSBC"), package |-> Str("com.hsbc"), amount |-> PyFloat(50000),
        timestamp |-> Str("05-02-2024") ],
      [ package |-> Str("com.gpay"), amount |-> PyInt(500),
        counterparty |-> Str("AMAZON") ],
      [ package |-> Str("com.gpay"), amount |-> PyInt(500),
        transaction_type |-> None, timestamp |-> Str("05-02-24") ] }

\* datetime.now().isoformat() at the time of a request
NowValues == { "2026-01-01T10:00:00", "2026-01-01T10:00:01" }

SmsBatches == SeqsUpTo(SmsPool, MaxBatch)
NotificationBatches == SeqsUpTo(NotificationPool, MaxBatch)

\* a local variable: F of the value of x, x evaluated once
Apply(F(_), x) == CHOOSE y \in { F(v) : v \in { x } } : TRUE

\* enriched, as receive_sms completes it with the result of analyze_sms
Enrich(sms) ==
    LET fraud_result == analyze_sms(sms)
    IN  [ is_spam |-> fraud_result.is_spam,
          is_genuine |-> fraud_result.is_genuine,
          fraud_type |-> fraud_result.fraud_type ] @@ preprocess_single_sms(sms)

\* txn, as receive_sms completes it with the label and the anomaly result
Complete(extracted, enriched, existing_transactions) ==
    LET labelled ==
            [ label |-> enriched.label, sub_label |-> enriched.sub_label,
              label_confidence |-> enriched.label_confidence ] @@ extracted
        anomaly == detect_anomaly(labelled, existing_transactions)
    IN  [ is_anomaly |-> anomaly.is_anomaly,
          anomaly_score |-> anomaly.anomaly_score ] @@ labelled

\* the dedup that forgets the hashes of the batch itself
AddUnlessSeenNotAccumulated(txn, acc) ==
    LET txn_hash == _transaction_hash(txn)
    IN  IF txn_hash \in acc.existing_hashes THEN acc
        ELSE [ acc EXCEPT !.transactions = Append(@, txn) ]

\* content-hash dedup: txn joins the batch's transactions unless its hash
\* is one of existing_hashes
AddUnlessSeen(txn, acc) ==
    LET txn_hash == _transaction_hash(txn)
    IN  IF txn_hash \in acc.existing_hashes THEN acc
        ELSE [ acc EXCEPT !.existing_hashes = @ \cup { txn_hash },
                          !.transactions = Append(@, txn) ]

\* the body of the loop of receive_sms for one SMS; acc holds processed,
\* transactions and existing_hashes
ProcessSms(sms, acc, existing_transactions) ==
    LET Extracted(enriched, appended) ==
            LET Stored(extracted) ==
                    IF extracted.transaction_type = None THEN appended
                    ELSE Apply(LAMBDA txn : AddUnlessSeen(txn, appended),
                               Complete(extracted, enriched, existing_transactions))
            IN  Apply(Stored, extract_transaction(sms))
        Processed(enriched) ==
            LET Labelled(appended) ==
                    IF enriched.label = "financial_transaction" /\ enriched.is_genuine
                    THEN Extracted(enriched, appended)
                    ELSE appended
            IN  Apply(Labelled, [ acc EXCEPT !.processed = Append(@, enriched) ])
    IN  Apply(Processed, Enrich(sms))

RECURSIVE ProcessAll(_, _, _)
\* for sms in new_raw
ProcessAll(new_raw, acc, existing_transactions) ==
    IF new_raw = << >> THEN acc
    ELSE Apply(LAMBDA after : ProcessAll(Tail(new_raw), after, existing_transactions),
               ProcessSms(Head(new_raw), acc, existing_transactions))

\* the hashes of the stored transactions
HashesOf(txns) == { _transaction_hash(txns[i]) : i \in DOMAIN txns }

\* preprocess_single_sms(sms) raises AttributeError: the body is None
Raises(sms) == "body_null" \in DOMAIN sms

\* the loop over the SMS raises at one of them
RaisesOnAny(batch) == \E i \in DOMAIN batch : Raises(batch[i])

\* new_raw: the SMS of the request whose _id is not the _id of a stored SMS
NewRaw(sms_list) ==
    LET existing_ids ==
            { sms_raw[i]._id : i \in { j \in DOMAIN sms_raw : sms_raw[j]._id # "" } }
    IN  SelectSeq(sms_list, LAMBDA s : s._id \notin existing_ids)

\* POST /api/sms with payload.data = sms_list.  The raw SMS are saved before
\* the loop; when the loop raises the handler answers HTTP 500 and the two
\* other files are not written
ReceiveSmsOf(sms_list) ==
    \E new_raw \in { NewRaw(sms_list) } :
        /\ Len(sms_raw) + Len(new_raw) <= MaxRaw
        /\ IF sms_list = << >> \/ new_raw = << >>
           THEN UNCHANGED storeVars
           ELSE IF RaisesOnAny(new_raw)
           THEN /\ sms_raw' = sms_raw \o new_raw
                /\ UNCHANGED <<processed_sms, transactions>>
           ELSE \E done \in { ProcessAll(new_raw,
                                          [ processed |-> << >>, transactions |-> << >>,
                                            existing_hashes |-> HashesOf(transactions) ],
                                          transactions) } :
                    /\ Len(transactions) + Len(done.transactions) <= MaxTxns
                    /\ sms_raw' = sms_raw \o new_raw
                    /\ processed_sms' = processed_sms \o done.processed
                    /\ transactions' = transactions \o done.transactions
        /\ UNCHANGED <<messageVars, classifierVars, anomalyVars, callVars, trainerVars>>

\* POST /api/sms
ReceiveSms == \E sms_list \in SmsBatches : ReceiveSmsOf(sms_list)

\* the transaction receive_notifications builds from one notification
NotificationTransaction(notif, now) ==
    [ sms_id |-> "notif_" \o PyStr(Get(notif, "timestamp", Str(""))) \o "_"
                    \o PyStr(Get(notif, "package", Str(""))),
      sender |-> Get(notif, "app_name", Get(notif, "package", Str("UPI"))),
      amount |-> _safe_float(Get(notif, "amount", None)),
      transaction_type |-> Get(notif, "transaction_type", Str("debit")),
      category |-> Get(notif, "category", Str("other")),
      counterparty |-> Get(notif, "counterparty", Str("")),
      transaction_date |-> Get(notif, "timestamp", Str(now)),
      bank_name |-> Get(notif, "app_name", Str("")),
      label |-> "financial_transaction",
      sub_label |-> "upi_notification",
      label_confidence |-> 9500,
      is_anomaly |-> FALSE,
      anomaly_score |-> 0 ]

RECURSIVE BuildAll(_, _, _)
\* for notif in notifications; acc holds transactions (new_transactions)
\* and existing_hashes
BuildAll(notifications, acc, now) ==
    IF notifications = << >> THEN acc
    ELSE Apply(LAMBDA after : BuildAll(Tail(notifications), after, now),
               Apply(LAMBDA txn : AddUnlessSeen(txn, acc),
                     NotificationTransaction(Head(notifications), now)))

\* POST /api/notifications
ReceiveNotifications ==
    \E notifications \in NotificationBatches, now \in NowValues :
        \E done \in { BuildAll(notifications,
                                [ existing_hashes |-> HashesOf(transactions),
                                  transactions |-> << >> ],
                                now) } :
            /\ Len(transactions) + Len(done.transactions) <= MaxTxns
            /\ transactions' = transactions \o done.transactions
            /\ UNCHANGED <<sms_raw, processed_sms, messageVars, classifierVars, anomalyVars, callVars, trainerVars>>

\* enriched, as reprocess_all_sms completes it with the result of analyze_sms
Reenrich(sms) ==
    LET fraud_result == analyze_sms(sms)
    IN  [ is_spam |-> fraud_result.is_spam,
          is_genuine |-> fraud_result.is_genuine ] @@ preprocess_single_sms(sms)

\* the body of the loop of reprocess_all_sms for one SMS; acc holds processed,
\* transactions and existing_hashes (seen_hashes)
ReprocessSms(sms, acc) ==
    LET Extracted(enriched, appended) ==
            LET Stored(extracted) ==
                    IF extracted.transaction_type = None THEN appended
                    ELSE Apply(LAMBDA txn : AddUnlessSeen(txn, appended),
                               [ label |-> enriched.label,
                                 sub_label |-> enriched.sub_label,
                                 label_confidence |-> enriched.label_confidence ]
                                   @@ extracted)
            IN  Apply(Stored, extract_transaction(sms))
        Processed(enriched) ==
            LET Labelled(appended) ==
                    IF enriched.label = "financial_transaction" /\ enriched.is_genuine
                    THEN Extracted(enriched, appended)
                    ELSE appended
            IN  Apply(Labelled, [ acc EXCEPT !.processed = Append(@, enriched) ])
    IN  Apply(Processed, Reenrich(sms))

RECURSIVE ReprocessEvery(_, _)
\* for sms in raw_sms
ReprocessEvery(raw_sms, acc) ==
    IF raw_sms = << >> THEN acc
    ELSE Apply(LAMBDA after : ReprocessEvery(Tail(raw_sms), after),
               ReprocessSms(Head(raw_sms), acc))

\* POST /api/sms/process; when the loop raises the handler answers HTTP 500
\* and writes no file
ReprocessAllSms ==
    /\ IF sms_raw = << >> \/ RaisesOnAny(sms_raw)
       THEN UNCHANGED <<processed_sms, transactions>>
       ELSE \E done \in { ReprocessEvery(sms_raw,
                                          [ processed |-> << >>, transactions |-> << >>,
                                            existing_hashes |-> { } ]) } :
                /\ processed_sms' = done.processed
                /\ transactions' = done.transactions
    /\ UNCHANGED <<sms_raw, messageVars, classifierVars, anomalyVars, callVars, trainerVars>>

\* the txn_id of the path and the category of the body of a PATCH request
TxnIds == 1 .. MaxTxnId
Categories == { "food", "other" }

\* the position of the first transaction whose sms_id is str(txn_id); 0 when
\* there is none
FirstWithSmsId(txns, txn_id) ==
    LET found == { i \in DOMAIN txns : txns[i].sms_id = ToString(txn_id) }
    IN  IF found = { } THEN 0 ELSE CHOOSE i \in found : \A j \in found : i <= j

\* PATCH /api/transactions/{txn_id}/category, the file fallback
UpdateCategory ==
    \E txn_id \in TxnIds, category \in Categories :
        \E i \in { FirstWithSmsId(transactions, txn_id) } :
            /\ IF i = 0
               THEN UNCHANGED transactions
               ELSE transactions' =
                        [ transactions EXCEPT ![i] =
                            [ category |-> Str(category), category_edited |-> TRUE ] @@ @ ]
            /\ UNCHANGED <<sms_raw, processed_sms, messageVars, classifierVars, anomalyVars, callVars, trainerVars>>

RECURSIVE _deduplicate_transactions(_, _, _)
\* _deduplicate_transactions(transactions): unique and seen_hashes start empty
_deduplicate_transactions(txns, unique, seen_hashes) ==
    IF txns = << >> THEN unique
    ELSE LET h == _transaction_hash(Head(txns))
         IN  IF h \notin seen_hashes
             THEN _deduplicate_transactions(Tail(txns), Append(unique, Head(txns)),
                                            seen_hashes \cup { h })
             ELSE _deduplicate_transactions(Tail(txns), unique, seen_hashes)

RECURSIVE UniqueRaw(_, _, _)
\* the raw SMS of startup_event: the first of each non-empty _id, and every
\* SMS without one
UniqueRaw(raw, unique_raw, seen_ids) ==
    IF raw = << >> THEN unique_raw
    ELSE LET sid == Head(raw)._id
         IN  IF sid # "" /\ sid \notin seen_ids
             THEN UniqueRaw(Tail(raw), Append(unique_raw, Head(raw)), seen_ids \cup { sid })
             ELSE IF sid = ""
             THEN UniqueRaw(Tail(raw), Append(unique_raw, Head(raw)), seen_ids)
             ELSE UniqueRaw(Tail(raw), unique_raw, seen_ids)

\* the startup handler: the server is started again on its data files
StartupEvent ==
    /\ transactions' = _deduplicate_transactions(transactions, << >>, { })
    /\ sms_raw' = UniqueRaw(sms_raw, << >>, { })
    /\ UNCHANGED <<processed_sms, messageVars, classifierVars, anomalyVars, callVars, trainerVars>>

\* the server with empty data files
InitIngest ==
    /\ body = << >>
    /\ sender = ""
    /\ pc = "serving"
    /\ rule = NoResult
    /\ is_trained = FALSE
    /\ model = {}
    /\ ml = [status |-> "not_called"]
    /\ result = [method |-> "none"]
    /\ StoresEmpty
    /\ AnomalyIdle
    /\ CallIdle
    /\ TrainerIdle

NextIngest ==
    \/ ReceiveSms
    \/ ReceiveNotifications
    \/ ReprocessAllSms
    \/ UpdateCategory
    \/ StartupEvent

SpecIngest == InitIngest /\ [][NextIngest]_vars

(***************************************************************************)
(* Properties of SmsClassifier.classify, checked under SpecClassify.       *)
(***************************************************************************)
Returned == pc = "returned"

\* C3: when the rule-based confidence is at least 0.65, classify returns the
\* rule-based label, sub_label and confidence with method rule_based, and
\* _ml_predict is not called.
C3_HighConfidenceRuleOnly ==
    (Returned /\ rule.confidence >= CONFIDENCE_THRESHOLD)
        => /\ result = RuleResult(rule)
           /\ ml.status = "not_called"

\* a trained model is there, and the rule confidence is exactly the threshold
C3_Witness ==
    /\ Returned
    /\ is_trained
    /\ rule.confidence = CONFIDENCE_THRESHOLD
    /\ result.method = "rule_based"
    /\ ml.status = "not_called"

\* C4: with a rule confidence below 0.65 and a model prediction, the model's
\* label and confidence replace the rule's exactly when the model confidence
\* is greater; then method is ml_ensemble and the sub_label is the rule's;
\* otherwise the result is the rule-based result.
C4_ModelAcceptedIffMoreConfident ==
    (Returned /\ rule.confidence < CONFIDENCE_THRESHOLD /\ ml.status = "returned")
        => IF ml.confidence > rule.confidence
           THEN result = [ label |-> ml.label, sub_label |-> rule.sub_label,
                           confidence |-> Round3(ml.confidence),
                           method |-> "ml_ensemble" ]
           ELSE result = RuleResult(rule)

\* the model is accepted over the rule and the rule's sub_label is kept
C4_Witness ==
    /\ Returned
    /\ Round3(rule.confidence) = 5500
    /\ ml.status = "returned" /\ ml.confidence = 8000
    /\ result.method = "ml_ensemble"
    /\ result.label = ml.label /\ result.label # rule.label
    /\ result.sub_label = rule.sub_label

\* C5: with no model loaded, or a prediction that raises, classify returns
\* the rule-based result unmodified, and no error reaches the caller.
C5_ModelFailureKeepsRuleResult ==
    /\ pc # "raised"
    /\ (Returned /\ (~is_trained \/ ml.status = "raised"))
          => result = RuleResult(rule)

\* the prediction was attempted for a low-confidence message and raised
C5_Witness ==
    /\ Returned
    /\ is_trained
    /\ rule.confidence < CONFIDENCE_THRESHOLD
    /\ ml.status = "raised"
    /\ result = RuleResult(rule)

\* C6: the label classify returns is one of the six label names, also when
\* the prediction of a model fitted by train is accepted.
C6_LabelIsALabelName ==
    Returned => result.label \in Labels

(***************************************************************************)
(* Properties of label_sms, checked under SpecLabel.                       *)
(***************************************************************************)
Labelled == pc = "labelled"

\* C1: a body that matches the spam-indicator pattern is labelled exactly
\* (spam, phishing, 0.90), whatever the sender and the other signals are.
C1_SpamGateFirst ==
    (Labelled /\ Search(SPAM_INDICATORS, body))
        => rule = Triple("spam", "phishing", 9000)

\* a spam body that also looks like an OTP and like a bank transaction
C1_Witness ==
    /\ Labelled
    /\ Search(SPAM_INDICATORS, body)
    /\ Search(OTP_PATTERN, body)
    /\ Search(AMOUNT_PATTERN, body) /\ Search(DEBIT_INDICATORS, body)
    /\ sender \in BANK_SENDER_PATTERNS
    /\ rule.label = "spam"

\* C2: a body that matches the non-transaction gate is never labelled
\* financial_transaction, whatever the transaction signals are.
C2_NonTransactionNeverTransaction ==
    (Labelled /\ Search(NON_TRANSACTION_FINANCIAL, body))
        => rule.label # "financial_transaction"

\* amount, account, debit keyword, bank sender and payment rail all present
C2_Witness ==
    /\ Labelled
    /\ Search(NON_TRANSACTION_FINANCIAL, body)
    /\ Search(AMOUNT_PATTERN, body) /\ Search(ACCOUNT_PATTERN, body)
    /\ Search(DEBIT_INDICATORS, body) /\ Search(UPI_PATTERN, body)
    /\ sender \in BANK_SENDER_PATTERNS
    /\ TransactionScore(Signals(body, sender)) = 10000
    /\ rule.label = "financial_alert"

\* no step of the cascade before the default applies to the signals g
NoStepApplies(g) ==
    /\ ~g.is_spam
    /\ ~g.has_otp
    /\ g.is_non_transaction \/ TransactionScore(g) < 5000
    /\ FinancialAlertScore(g) < 4000
    /\ ~g.has_promo
    /\ ~g.is_phone_sender

\* C7: label_sms returns, for every body and sender, one of the six labels
\* with a confidence in [0, 1], and (promotional, informational, 0.60) when
\* no earlier step of the cascade applies.
C7_Total ==
    Labelled =>
        /\ rule.label \in Labels
        /\ rule.confidence >= 0 /\ rule.confidence <= 10000
        /\ NoStepApplies(Signals(body, sender))
              => rule = Triple("promotional", "informational", 6000)

\* the default step is reached by a body that carries some financial signal
C7_Witness ==
    /\ Labelled
    /\ NoStepApplies(Signals(body, sender))
    /\ Search(AMOUNT_PATTERN, body)
    /\ rule = Triple("promotional", "informational", 6000)

\* the signals the claim C8 turns on, one at a time
SignalNames ==
    { "has_amount", "has_account", "has_credit", "has_debit", "is_bank_sender",
      "payment_rail", "has_balance", "is_non_transaction" }

\* the signal n is off in g (a credit/debit keyword, a payment rail: none is on)
IsOff(g, n) ==
    CASE n = "has_amount"         -> ~g.has_amount
      [] n = "has_account"        -> ~g.has_account
      [] n = "has_credit"         -> ~g.has_credit /\ ~g.has_debit
      [] n = "has_debit"          -> ~g.has_credit /\ ~g.has_debit
      [] n = "is_bank_sender"     -> ~g.is_bank_sender
      [] n = "payment_rail"       -> ~g.has_upi /\ ~g.has_neft /\ ~g.has_imps
      [] n = "has_balance"        -> ~g.has_balance
      [] n = "is_non_transaction" -> ~g.is_non_transaction

TurnOn(g, n) ==
    IF n = "payment_rail" THEN [g EXCEPT !.has_upi = TRUE]
    ELSE [g EXCEPT ![n] = TRUE]

PastSpamAndOtpGate(g) ==
    /\ ~g.is_spam
    /\ ~(g.has_otp /\ ~(g.has_amount /\ (g.has_credit \/ g.has_debit)))

\* C8 as claimed: past the spam and OTP gates, turning one more signal on
\* never lowers the confidence label_sms returns.
C8_Original ==
    (Labelled /\ PastSpamAndOtpGate(Signals(body, sender))) =>
        \A n \in SignalNames :
            IsOff(Signals(body, sender), n)
                => Cascade(TurnOn(Signals(body, sender), n)).confidence >= rule.confidence

\* C8 amended: past the spam and OTP gates, turning one more signal on never
\* lowers the confidence as long as the label stays the same.
C8_MonotoneWithinLabel ==
    (Labelled /\ PastSpamAndOtpGate(Signals(body, sender))) =>
        \A n \in SignalNames :
            (/\ IsOff(Signals(body, sender), n)
             /\ Cascade(TurnOn(Signals(body, sender), n)).label = rule.label)
                => Cascade(TurnOn(Signals(body, sender), n)).confidence >= rule.confidence

\* a transaction whose confidence rises when the account signal is added
C8_Witness ==
    /\ Labelled
    /\ PastSpamAndOtpGate(Signals(body, sender))
    /\ rule.label = "financial_transaction"
    /\ IsOff(Signals(body, sender), "has_account")
    /\ Cascade(TurnOn(Signals(body, sender), "has_account")).label = rule.label
    /\ Cascade(TurnOn(Signals(body, sender), "has_account")).confidence > rule.confidence

\* C17: for a body the spam gate does not catch and the OTP pattern matches,
\* label_sms returns (otp, verification, 0.95) exactly when the body does not
\* hold both an amount and a credit or debit keyword; when it holds both, the
\* message is classified by the later steps, as it is without the OTP wording,
\* and never as otp.
C17_OtpGate ==
    LET g == Signals(body, sender)
        transactional == g.has_amount /\ (g.has_credit \/ g.has_debit)
    IN  (Labelled /\ ~g.is_spam /\ g.has_otp)
            => /\ rule = Triple("otp", "verification", 9500) <=> ~transactional
               /\ transactional
                    => /\ rule.label # "otp"
                       /\ rule = Cascade([ g EXCEPT !.has_otp = FALSE ])

\* an OTP message with an amount and a debit keyword, labelled a transaction
C17_Witness ==
    /\ Labelled
    /\ ~Signals(body, sender).is_spam
    /\ Signals(body, sender).has_otp
    /\ Signals(body, sender).has_amount
    /\ Signals(body, sender).has_debit
    /\ rule.label = "financial_transaction"

\* 1 when the signal is present, 0 when it is not
Indicator(signal) == IF signal THEN 1 ELSE 0

\* 0.25*has_amount + 0.20*has_account + 0.30*(has_credit or has_debit)
\*   + 0.15*is_bank_sender + 0.10*(has_upi or has_neft or has_imps), as a decimal
DecimalTransactionScore(g) ==
    2500 * Indicator(g.has_amount) + 2000 * Indicator(g.has_account)
        + 3000 * Indicator(g.has_credit \/ g.has_debit)
        + 1500 * Indicator(g.is_bank_sender)
        + 1000 * Indicator(g.has_upi \/ g.has_neft \/ g.has_imps)

\* the message got past the spam gate and the OTP gate
PastGates(g) ==
    ~g.is_spam /\ ~(g.has_otp /\ ~(g.has_amount /\ (g.has_credit \/ g.has_debit)))

\* the double x is the decimal d up to the rounding of the additions
Rounds(x, d) == Abs(x - d) <= 1

\* C18: for a message past the spam and OTP gates that the non-transaction
\* gate does not match, the label is financial_transaction if and only if the
\* weighted sum of the five signals is at least 0.50, and the confidence is
\* then min(score + 0.10, 1.0).
C18_TransactionScoring ==
    LET g == Signals(body, sender)
    IN  (Labelled /\ PastGates(g) /\ ~g.is_non_transaction)
            => /\ rule.label = "financial_transaction"
                    <=> DecimalTransactionScore(g) >= 5000
               /\ Rounds(TransactionScore(g), DecimalTransactionScore(g))
               /\ rule.label = "financial_transaction"
                    => Rounds(rule.confidence,
                              Min(DecimalTransactionScore(g) + 1000, 10000))

\* an account and a debit keyword alone: the score is exactly 0.50
C18_Witness ==
    /\ Labelled
    /\ PastGates(Signals(body, sender))
    /\ ~Signals(body, sender).is_non_transaction
    /\ DecimalTransactionScore(Signals(body, sender)) = 5000
    /\ rule.label = "financial_transaction"
    /\ rule.confidence = 6000

\* the positions of the body where the pattern matches
Occurrences(pattern, text) == { i \in DOMAIN text : text[i] \in pattern }

\* the first of a non-empty set of positions
First(positions) == CHOOSE i \in positions : \A j \in positions : i <= j

\* C19: the sub-label of a financial_transaction is credit when only credit
\* keywords occur, debit when only debit keywords occur, unknown_direction
\* when neither occurs, and when both occur the kind that occurs first.
C19_SubLabelByDirection ==
    LET credits == Occurrences(CREDIT_INDICATORS, body)
        debits == Occurrences(DEBIT_INDICATORS, body)
    IN  (Labelled /\ rule.label = "financial_transaction")
            => rule.sub_label =
                  (IF credits = { } /\ debits = { } THEN "unknown_direction"
                   ELSE IF debits = { } THEN "credit"
                   ELSE IF credits = { } THEN "debit"
                   ELSE IF First(debits) < First(credits) THEN "debit"
                   ELSE "credit")

\* both kinds occur, the debit keyword first, and the sub-label is debit
C19_Witness ==
    /\ Labelled
    /\ rule.label = "financial_transaction"
    /\ Occurrences(CREDIT_INDICATORS, body) # { }
    /\ Occurrences(DEBIT_INDICATORS, body) # { }
    /\ First(Occurrences(DEBIT_INDICATORS, body)) < First(Occurrences(CREDIT_INDICATORS, body))
    /\ rule.sub_label = "debit"

\* 0.30*is_bank_sender + 0.15*has_amount + 0.20*has_balance
\*   + 0.25*is_non_transaction + 0.10*has_account, as a decimal
DecimalAlertScore(g) ==
    3000 * Indicator(g.is_bank_sender) + 1500 * Indicator(g.has_amount)
        + 2000 * Indicator(g.has_balance) + 2500 * Indicator(g.is_non_transaction)
        + 1000 * Indicator(g.has_account)

\* C20: for a message not labelled spam, otp or financial_transaction, the
\* label is financial_alert if and only if the weighted sum of the five alert
\* signals is at least 0.40, with confidence min(score + 0.10, 1.0); otherwise
\* the promotional, personal and default steps decide.
C20_AlertScoring ==
    LET g == Signals(body, sender)
    IN  (Labelled /\ rule.label \notin { "spam", "otp", "financial_transaction" })
            => /\ rule.label = "financial_alert" <=> DecimalAlertScore(g) >= 4000
               /\ Rounds(FinancialAlertScore(g), DecimalAlertScore(g))
               /\ rule.label = "financial_alert"
                    => Rounds(rule.confidence, Min(DecimalAlertScore(g) + 1000, 10000))
               /\ rule.label # "financial_alert"
                    => rule = (IF g.has_promo THEN Triple("promotional", "marketing", 8000)
                               ELSE IF g.is_phone_sender
                               THEN Triple("personal", "p2p_message", 7000)
                               ELSE Triple("promotional", "informational", 6000))

\* a balance message with an account from a sender that is no bank: 0.20 + 0.10
\* is below the threshold; with an amount as well, 0.45 is an alert
C20_Witness ==
    /\ Labelled
    /\ rule.label = "financial_alert"
    /\ Signals(body, sender).has_balance
    /\ ~Signals(body, sender).is_bank_sender
    /\ ~Signals(body, sender).is_non_transaction
    /\ DecimalAlertScore(Signals(body, sender)) = 4500

(***************************************************************************)
(* Properties of the dedup key, checked under SpecIngest.                  *)
(***************************************************************************)
\* the fields _transaction_hash reads
HashedFields ==
    { "amount", "transaction_date", "transaction_type", "sender", "bank_name",
      "counterparty" }

\* the field k of the record t holds nothing
IsAbsent(t, k) == k \notin DOMAIN t \/ t[k] = None \/ t[k] = Str("")

\* the record t with the key k left out
WithoutKey(t, k) == [ x \in DOMAIN t \ { k } |-> t[x] ]

\* the ways to write the record t with nothing in the field k
AbsentRepresentations(t, k) ==
    { WithoutKey(t, k),
      [ x \in DOMAIN t \cup { k } |-> IF x = k THEN None ELSE t[x] ],
      [ x \in DOMAIN t \cup { k } |-> IF x = k THEN Str("") ELSE t[x] ] }

\* the key with every absent field (missing or None) contributing the empty string
KeyWithAbsentEmpty(txn) ==
    LET field(k) == IF Get(txn, k, Str("")) = None THEN "" ELSE PyStr(Get(txn, k, Str("")))
    IN  PyStr(_safe_float(Get(txn, "amount", PyInt(0))))
            \o "|" \o field("transaction_date")
            \o "|" \o field("transaction_type")
            \o "|" \o field("sender")
            \o "|" \o field("bank_name")
            \o "|" \o field("counterparty")

\* C9: a hashed field that is absent contributes the empty string to the
\* dedup key, however it is represented: a stored record keeps its key when
\* an absent field of it is rewritten as a missing key, as None or as the
\* empty string.
C9_AbsentFieldsHashAlike ==
    \A i \in DOMAIN transactions :
        /\ _transaction_hash(transactions[i]) = KeyWithAbsentEmpty(transactions[i])
        /\ \A k \in HashedFields :
              IsAbsent(transactions[i], k)
                  => \A r \in AbsentRepresentations(transactions[i], k) :
                        _transaction_hash(r) = _transaction_hash(transactions[i])

FromNotification(t) == t.sub_label = "upi_notification"

\* a field with nothing in it, whichever way that is written
Normalised(v) == IF v = None THEN Str("") ELSE v

\* the two records describe the same movement of money: same amount,
\* direction, date and counterparty
SameMovement(a, b) ==
    /\ _safe_float(a.amount) = _safe_float(b.amount)
    /\ Normalised(a.transaction_type) = Normalised(b.transaction_type)
    /\ Normalised(a.transaction_date) = Normalised(b.transaction_date)
    /\ Normalised(a.counterparty) = Normalised(b.counterparty)

\* C10: a record extracted from an SMS and a record built from a UPI
\* notification that describe the same movement of money have the same dedup
\* key, so the store never holds both.
C10_SameMovementStoredOnce ==
    \A i, j \in DOMAIN transactions :
        (/\ ~FromNotification(transactions[i])
         /\ FromNotification(transactions[j])
         /\ SameMovement(transactions[i], transactions[j]))
            => FALSE

(***************************************************************************)
(* Properties of the ingestion handlers, checked under SpecIngest.         *)
(***************************************************************************)
\* the transactions receive_sms adds to the store txns for the batch sms_list
\* when the raw SMS file holds raw
AddedBySms(sms_list, raw, txns) ==
    LET existing_ids == { raw[i]._id : i \in { j \in DOMAIN raw : raw[j]._id # "" } }
        new_raw == SelectSeq(sms_list, LAMBDA s : s._id \notin existing_ids)
    IN  ProcessAll(new_raw, [ processed |-> << >>, transactions |-> << >>,
                              existing_hashes |-> HashesOf(txns) ], txns).transactions

\* the transactions receive_notifications adds to the store txns
AddedByNotifications(notifications, txns, now) ==
    BuildAll(notifications, [ existing_hashes |-> HashesOf(txns),
                              transactions |-> << >> ], now).transactions

\* C11: re-ingestion is idempotent: when a step stores what receive_sms or
\* receive_notifications stores for a batch, submitting the same batch a
\* second time, at whatever time, adds no transaction to the store.
C11_ResubmissionAddsNothing ==
    [][ /\ \A notifications \in NotificationBatches, first, second \in NowValues :
              transactions' = transactions
                                \o AddedByNotifications(notifications, transactions, first)
                  => AddedByNotifications(notifications, transactions', second) = << >>
        /\ \A sms_list \in SmsBatches :
              (/\ transactions' = transactions \o AddedBySms(sms_list, sms_raw, transactions)
               /\ sms_raw' = sms_raw \o sms_list)
                  => AddedBySms(sms_list, sms_raw', transactions') = << >> ]_vars

\* C12: from the empty store, after any sequence of receive_sms,
\* receive_notifications, reprocess_all_sms, update_category and startup
\* steps, no two entries of the transactions store have the same dedup key.
C12_NoTwoEqualKeys ==
    \A i, j \in DOMAIN transactions :
        i # j => _transaction_hash(transactions[i]) # _transaction_hash(transactions[j])

\* the SMS yields a transaction that receive_sms and reprocess_all_sms store
Storable(sms) ==
    /\ preprocess_single_sms(sms).label = "financial_transaction"
    /\ analyze_sms(sms).is_genuine
    /\ extract_transaction(sms).transaction_type # None

\* two SMS that arrived in one batch yield the same key, and the store holds
\* that key once
C12_Witness ==
    \E i, j \in DOMAIN sms_raw :
        /\ i < j
        /\ Storable(sms_raw[i])
        /\ Storable(sms_raw[j])
        /\ _transaction_hash(extract_transaction(sms_raw[i]))
               = _transaction_hash(extract_transaction(sms_raw[j]))
        /\ Cardinality({ k \in DOMAIN transactions :
                            _transaction_hash(transactions[k])
                               = _transaction_hash(extract_transaction(sms_raw[i])) }) = 1

\* C13: no record whose transaction_type is None is written to the
\* transactions store by receive_sms, reprocess_all_sms or
\* receive_notifications.
C13_NoRecordWithoutDirection ==
    \A i \in DOMAIN transactions : transactions[i].transaction_type # None

\* the stored transaction t is the one extracted from the processed SMS p
ExtractedFrom(t, p) ==
    LET extracted == extract_transaction(p)
    IN  /\ ~FromNotification(t)
        /\ \A k \in DOMAIN extracted : t[k] = extracted[k]

\* C14: receive_sms and reprocess_all_sms store a transaction for an SMS only
\* if its label is financial_transaction and detect_spam did not flag it; an
\* SMS that detect_spam flags is marked spam and not genuine, and has no
\* stored transaction and no anomaly score.
C14_OnlyGenuineTransactionsStored ==
    /\ \A i \in DOMAIN transactions :
          ~FromNotification(transactions[i])
              => \E j \in DOMAIN processed_sms :
                    /\ ExtractedFrom(transactions[i], processed_sms[j])
                    /\ processed_sms[j].label = "financial_transaction"
                    /\ ~detect_spam(processed_sms[j]).is_spam
    /\ \A j \in DOMAIN processed_sms :
          detect_spam(processed_sms[j]).is_spam
              => /\ processed_sms[j].is_spam
                 /\ ~processed_sms[j].is_genuine
                 /\ "anomaly_score" \notin DOMAIN processed_sms[j]
                 /\ \A i \in DOMAIN transactions :
                       ~ExtractedFrom(transactions[i], processed_sms[j])

\* a financial_transaction that detect_spam flagged was processed next to a
\* genuine one, and only the genuine one is stored
C14_Witness ==
    /\ \E j \in DOMAIN processed_sms :
          /\ processed_sms[j].label = "financial_transaction"
          /\ detect_spam(processed_sms[j]).is_spam
          /\ extract_transaction(processed_sms[j]).transaction_type # None
    /\ \E i \in DOMAIN transactions, j \in DOMAIN processed_sms :
          ExtractedFrom(transactions[i], processed_sms[j])

(***************************************************************************)
(* Properties of detect_anomaly, checked under SpecAnomaly.                *)
(***************************************************************************)
Scored == pc = "scored"

\* the amounts of the history that detect_anomaly takes the mean of
HistoricalAmounts(history) ==
    LET with_amount == SelectSeq(history, LAMBDA t : Truthy(Get(t, "amount", None)))
    IN  [ i \in DOMAIN with_amount |-> Rupees(with_amount[i].amount) ]

\* C15: on a history that is empty or has fewer than 5 transactions with an
\* amount, detect_anomaly returns is_anomaly false and anomaly_score 0.0,
\* whatever the current transaction.
C15_InertOnThinHistory ==
    (Scored /\ Len(HistoricalAmounts(history_snapshot)) < 5)
        => /\ anomaly_result.is_anomaly = FALSE
           /\ anomaly_result.anomaly_score = 0

\* n times |amount - mean|, for the n amounts of the history
Distance(amount, amounts) == Abs(Len(amounts) * Rupees(amount) - SeqSum(amounts))

\* C16: for a fixed history and two current transactions equal in everything
\* except the amount, the one whose amount is farther from the mean of the
\* historical amounts never gets the lower anomaly_score, amount 0 included.
C16_MonotoneInDistance ==
    (/\ Scored
     /\ current_txn.amount # None
     /\ Len(HistoricalAmounts(history_snapshot)) >= 1)
        => \A farther \in CurrentAmounts \ { None } :
              Distance(farther, HistoricalAmounts(history_snapshot))
                    >= Distance(current_txn.amount, HistoricalAmounts(history_snapshot))
                => detect_anomaly([ current_txn EXCEPT !.amount = farther ],
                                  history_snapshot).anomaly_score
                      >= anomaly_result.anomaly_score

\* |amount - mean| / max(std, 1.0) > k: the standard deviation is below 1
\* when n * n exceeds n * sum of squares - square of the sum
FlooredZScoreAbove(k, amount, amounts) ==
    LET n == Len(amounts)
        S == SeqSum(amounts)
        Q == SeqSum([ i \in DOMAIN amounts |-> amounts[i] * amounts[i] ])
        dev == Abs(n * amount - S)
        spread == n * Q - S * S
    IN  IF spread < n * n THEN dev > k * n
        ELSE spread <= (dev * dev - 1) \div (k * k)

\* neither the frequency rule nor the counterparty rule reads the transaction
OnlyAmountRule ==
    /\ current_txn.transaction_type = Str("credit")
    /\ current_txn.counterparty = None

\* C22: with at least 5 historical amounts and z = |amount - mean| /
\* max(std, 1.0), the amount contributes 0.40 when z > 3.0, 0.20 when
\* 2.0 < z <= 3.0 and nothing otherwise, for every std including 0 < std < 1.
C22_ZScoreWithFlooredStd ==
    (/\ Scored
     /\ Truthy(current_txn.amount)
     /\ Len(HistoricalAmounts(history_snapshot)) >= 5
     /\ OnlyAmountRule)
        => anomaly_result.anomaly_score
             = (IF FlooredZScoreAbove(3, Rupees(current_txn.amount),
                                      HistoricalAmounts(history_snapshot))
                THEN 4000
                ELSE IF FlooredZScoreAbove(2, Rupees(current_txn.amount),
                                           HistoricalAmounts(history_snapshot))
                THEN 2000
                ELSE 0)

\* the historical debits whose timestamp lies in the 24 hours that end at
\* the current transaction's timestamp
DebitsInTrailingDay ==
    LET at(t) == IF "timestamp" \in DOMAIN t
                 THEN TimestampMinutes[t.timestamp.v] ELSE 0
    IN  { i \in DOMAIN history_snapshot :
            /\ history_snapshot[i].transaction_type = Str("debit")
            /\ at(history_snapshot[i]) <= at(current_txn)
            /\ at(current_txn) - at(history_snapshot[i]) < 1440 }

\* neither the amount rule nor the counterparty rule adds to the score
OnlyFrequencyRule ==
    /\ Len(HistoricalAmounts(history_snapshot)) < 5
    /\ current_txn.counterparty = None

\* C23: for a current debit and a history of at least 3 entries, the
\* frequency rule adds 0.30 exactly when more than 5 historical debits have a
\* timestamp in the 24 hours ending at the current transaction's timestamp;
\* debits timestamped after the current transaction are not counted.
C23_TrailingDayOfDebits ==
    (/\ Scored
     /\ Truthy(current_txn.amount)
     /\ current_txn.transaction_type = Str("debit")
     /\ current_txn.timestamp.v \in DOMAIN TimestampMinutes
     /\ Len(history_snapshot) >= 3
     /\ OnlyFrequencyRule)
        => (anomaly_result.anomaly_score = 3000
              <=> Cardinality(DebitsInTrailingDay) > 5)

(***************************************************************************)
(* Properties of the extractor.                                            *)
(***************************************************************************)
TypeDetected == pc = "type_detected"

BankParsed == pc = "bank_parsed"

\* an exclusion pattern matches the body
Excluded == \E i \in DOMAIN body : body[i] \in non_txn_patterns

HasCreditKeyword == \E i \in DOMAIN body : body[i] \in credit_kws

HasDebitKeyword == \E i \in DOMAIN body : body[i] \in debit_kws

\* the first keyword of the body, of either kind, is a credit keyword
CreditKeywordFirst ==
    \E i \in DOMAIN body :
        /\ body[i] \in credit_kws
        /\ \A j \in 1 .. (i - 1) : body[j] \notin credit_kws \cup debit_kws

\* C24: detect_transaction_type returns None exactly when an exclusion
\* pattern matches the body or the body has neither a credit nor a debit
\* keyword; otherwise it returns credit or debit, and with both kinds of
\* keyword present the kind whose keyword occurs first.
C24_TypeByKeywords ==
    TypeDetected
        => /\ returned = None <=> (Excluded \/ (~HasCreditKeyword /\ ~HasDebitKeyword))
           /\ returned # None
                => /\ returned \in { Str("credit"), Str("debit") }
                   /\ (HasCreditKeyword /\ ~HasDebitKeyword) => returned = Str("credit")
                   /\ (HasDebitKeyword /\ ~HasCreditKeyword) => returned = Str("debit")
                   /\ (HasCreditKeyword /\ HasDebitKeyword)
                        => returned = (IF CreditKeywordFirst THEN Str("credit")
                                       ELSE Str("debit"))

\* both kinds of keyword in a body no exclusion pattern matches, the debit
\* keyword first
C24_Witness ==
    /\ TypeDetected
    /\ ~Excluded
    /\ HasCreditKeyword /\ HasDebitKeyword /\ ~CreditKeywordFirst
    /\ returned = Str("debit")

\* the full name of a BANK_MAP code
FullName(code) ==
    BANK_MAP[CHOOSE i \in DOMAIN BANK_MAP : BANK_MAP[i][1] = code][2]

\* C25: if the sender contains a bank code, bank_name is the full name of a
\* code found in the sender, whatever codes the body contains; a code in the
\* body is used only when the sender contains none, and the "- NAME" suffix
\* (3 to 39 characters) only when neither sender nor body contains a code.
C25_SenderBeforeBody ==
    BankParsed
        => IF CodesInSender(sender) # { }
           THEN \E code \in CodesInSender(sender) : returned = Str(FullName(code))
           ELSE IF CodesInBody(body) # { }
           THEN \E code \in CodesInBody(body) : returned = Str(FullName(code))
           ELSE IF /\ body # << >>
                   /\ body[Len(body)] \in DOMAIN BankAtEndRegex
                   /\ NameLength[body[Len(body)]] \in 3 .. 39
           THEN returned = Str(BankAtEndRegex[body[Len(body)]])
           ELSE returned = None
(***************************************************************************)
(* The AutoTrainer (auto_trainer.py).  Two threads call it: the monitor    *)
(* thread started by start_background, and the event loop, on which the    *)
(* handlers receive_sms and trigger_retrain run one request at a time.     *)
(* The object holds no lock: a step of retrain is a statement, and the     *)
(* threads' statements interleave.                                         *)
(***************************************************************************)
RETRAIN_THRESHOLD == 200

Threads == { "monitor", "request" }

\* the numbers of new SMS a receive_sms request stores
BatchSizes == { 100, 200 }

InitTrainer ==
    /\ body = << >>
    /\ sender = ""
    /\ pc = "start"
    /\ rule = NoResult
    /\ is_trained = FALSE
    /\ model = {}
    /\ ml = [status |-> "not_called"]
    /\ result = [method |-> "none"]
    /\ StoresEmpty
    /\ AnomalyIdle
    /\ CallIdle
    /\ is_training = FALSE
    /\ last_trained_count = 0
    /\ sms_count = 0
    /\ thread_pc = [ t \in Threads |-> "idle" ]

\* should_retrain()
should_retrain ==
    sms_count - last_trained_count >= RETRAIN_THRESHOLD /\ ~is_training

\* receive_sms up to its threshold check: the new raw SMS are saved
StoreSms ==
    /\ thread_pc["request"] = "idle"
    /\ \E n \in BatchSizes :
          /\ sms_count + n <= MaxSmsCount
          /\ sms_count' = sms_count + n
    /\ thread_pc' = [ thread_pc EXCEPT !["request"] = "threshold_check" ]
    /\ UNCHANGED <<messageVars, classifierVars, storeVars, anomalyVars, callVars,
                   is_training, last_trained_count>>

\* receive_sms: if auto_trainer.should_retrain(): auto_trainer.retrain(...)
ThresholdCheck ==
    /\ thread_pc["request"] = "threshold_check"
    /\ thread_pc' = [ thread_pc EXCEPT !["request"] =
                         IF should_retrain THEN "retrain" ELSE "idle" ]
    /\ UNCHANGED <<messageVars, classifierVars, storeVars, anomalyVars, callVars,
                   is_training, last_trained_count, sms_count>>

\* trigger_retrain: auto_trainer.retrain(triggered_by="manual")
TriggerRetrain ==
    /\ thread_pc["request"] = "idle"
    /\ thread_pc' = [ thread_pc EXCEPT !["request"] = "retrain" ]
    /\ UNCHANGED <<messageVars, classifierVars, storeVars, anomalyVars, callVars,
                   is_training, last_trained_count, sms_count>>

\* _background_loop: if self.should_retrain(): self.retrain(...)
MonitorCheck ==
    /\ thread_pc["monitor"] = "idle"
    /\ should_retrain
    /\ thread_pc' = [ thread_pc EXCEPT !["monitor"] = "retrain" ]
    /\ UNCHANGED <<messageVars, classifierVars, storeVars, anomalyVars, callVars,
                   is_training, last_trained_count, sms_count>>

\* retrain: if self.is_training: return {'status': 'already_training'}
RetrainGuard(t) ==
    /\ thread_pc[t] = "retrain"
    /\ thread_pc' = [ thread_pc EXCEPT ![t] =
                         IF is_training THEN "idle" ELSE "passed" ]
    /\ UNCHANGED <<messageVars, classifierVars, storeVars, anomalyVars, callVars,
                   is_training, last_trained_count, sms_count>>

\* retrain: self.is_training = True
RetrainBegin(t) ==
    /\ thread_pc[t] = "passed"
    /\ is_training' = TRUE
    /\ thread_pc' = [ thread_pc EXCEPT ![t] = "training" ]
    /\ UNCHANGED <<messageVars, classifierVars, storeVars, anomalyVars, callVars,
                   last_trained_count, sms_count>>

\* retrain: the try block runs to its return
RetrainCompletes(t) ==
    /\ thread_pc[t] = "training"
    /\ last_trained_count' = sms_count
    /\ thread_pc' = [ thread_pc EXCEPT ![t] = "finally" ]
    /\ UNCHANGED <<messageVars, classifierVars, storeVars, anomalyVars, callVars,
                   is_training, sms_count>>

\* retrain: the try block raises before last_trained_count is assigned
RetrainFails(t) ==
    /\ thread_pc[t] = "training"
    /\ thread_pc' = [ thread_pc EXCEPT ![t] = "finally" ]
    /\ UNCHANGED <<messageVars, classifierVars, storeVars, anomalyVars, callVars,
                   is_training, last_trained_count, sms_count>>

\* retrain: finally: self.is_training = False
RetrainFinally(t) ==
    /\ thread_pc[t] = "finally"
    /\ is_training' = FALSE
    /\ thread_pc' = [ thread_pc EXCEPT ![t] = "idle" ]
    /\ UNCHANGED <<messageVars, classifierVars, storeVars, anomalyVars, callVars,
                   last_trained_count, sms_count>>

NextTrainer ==
    \/ StoreSms
    \/ ThresholdCheck
    \/ TriggerRetrain
    \/ MonitorCheck
    \/ \E t \in Threads : RetrainGuard(t)
    \/ \E t \in Threads : RetrainBegin(t)
    \/ \E t \in Threads : RetrainCompletes(t)
    \/ \E t \in Threads : RetrainFails(t)
    \/ \E t \in Threads : RetrainFinally(t)

SpecTrainer == InitTrainer /\ [][NextTrainer]_vars

(***************************************************************************)
(* Properties of the AutoTrainer.                                          *)
(***************************************************************************)
\* the thread is executing the retraining pipeline (the try block of retrain)
Retraining(t) == thread_pc[t] = "training"

\* C26: across the monitor thread and the request-triggered calls, at most
\* one execution of the retraining pipeline is in progress at any time, and
\* is_training is true for as long as any retraining is in progress.
C26_OneRetrainingAtATime ==
    /\ Cardinality({ t \in DOMAIN thread_pc : Retraining(t) }) <= 1
    /\ (\E t \in DOMAIN thread_pc : Retraining(t)) => is_training

(***************************************************************************)
(* Properties of detect_spam.                                              *)
(***************************************************************************)
SpamChecked == pc = "spam_checked"

\* the five categories and the indexes of their patterns in SPAM_PATTERNS
SpamCategories ==
    { "lottery_scam", "fake_bank_alert", "loan_scam", "phishing_url", "otp_theft" }

PatternsHit(text) == { i \in DOMAIN SPAM_PATTERNS : Search(SPAM_PATTERNS[i], text) }

CategoriesHit(text) == { SpamTypeOf(i) : i \in PatternsHit(text) }

\* the category of the highest pattern hit: the categories are consecutive
\* runs of SPAM_PATTERNS in the order of SpamCategories
LastCategoryHit(text) ==
    SpamTypeOf(CHOOSE i \in PatternsHit(text) : \A j \in PatternsHit(text) : j <= i)

\* neither the sender rule nor the URL rule adds to the score
OtherSpamRulesSilent ==
    /\ sender \in LEGITIMATE_BANK_PREFIXES \cup PhoneNumberSenders
    /\ ~Search(UnknownUrls, body)

\* C21: each spam category that is hit adds 0.30 to the spam score once: when
\* nothing else adds to it, spam_confidence is 0.30 times the number of
\* categories hit (at most 1.0), and spam_type is the last category hit.
C21_ScorePerCategory ==
    (SpamChecked /\ OtherSpamRulesSilent)
        => /\ returned.spam_confidence
                = Min(3000 * Cardinality(CategoriesHit(body)), 10000)
           /\ CategoriesHit(body) # { }
                => returned.spam_type = Str(LastCategoryHit(body))

(***************************************************************************)
(* Failure, reprocessing and raw-SMS identity, checked under SpecIngest.   *)
(***************************************************************************)
\* the request with payload.data = sms_list is answered with HTTP 500
AnswersError(sms_list) == RaisesOnAny(NewRaw(sms_list))

\* C27: receive_sms leaves the stores unchanged on failure: when processing
\* a batch raises (HTTP 500), the raw-SMS, processed-SMS and transactions
\* stores are as before the request.
C27_FailureLeavesStores ==
    [][ \A sms_list \in SmsBatches :
            (AnswersError(sms_list) /\ ReceiveSmsOf(sms_list))
                => UNCHANGED storeVars ]_vars

\* the transaction carries a category set by update_category
Edited(t) == "category_edited" \in DOMAIN t

\* C28: reprocess_all_sms preserves what it did not derive: the transactions
\* stored by receive_notifications and the category edits made by
\* update_category are still in the transactions store after it.
C28_ReprocessPreserves ==
    [][ ReprocessAllSms
          => \A i \in DOMAIN transactions :
                /\ FromNotification(transactions[i])
                      => \E j \in DOMAIN transactions' :
                            transactions'[j] = transactions[i]
                /\ Edited(transactions[i])
                      => \E j \in DOMAIN transactions' :
                            /\ transactions'[j].sms_id = transactions[i].sms_id
                            /\ Edited(transactions'[j])
                            /\ transactions'[j].category = transactions[i].category ]_vars

\* C29: label and extraction agree on direction: every stored transaction
\* whose sub_label is credit or debit has transaction_type equal to that
\* sub_label.
C29_SubLabelIsDirection ==
    \A i \in DOMAIN transactions :
        transactions[i].sub_label \in { "credit", "debit" }
            => transactions[i].transaction_type = Str(transactions[i].sub_label)

\* C30: raw SMS are stored once per id: the raw store, empty at the start,
\* never holds two messages with the same non-empty _id, and no message is
\* processed twice.
C30_RawOncePerId ==
    /\ \A i, j \in DOMAIN sms_raw :
          (i # j /\ sms_raw[i]._id # "") => sms_raw[i]._id # sms_raw[j]._id
    /\ \A i, j \in DOMAIN processed_sms :
          (i # j /\ processed_sms[i]._id # "")
              => processed_sms[i]._id # processed_sms[j]._id
====
